---- MODULE Spec2Model ----
(***************************************************************************)
(* quotapilot: Router (src/router/core.py), retry classifier               *)
(* (src/router/retry.py), Budget Manager (src/state/budget.py) and the     *)
(* chat-completions endpoint of the gateway (src/gateway/main.py).         *)
(*                                                                         *)
(* Encoding conventions                                                    *)
(*  - Optional[X]: a sequence of length 0 (None) or 1 (the value).         *)
(*  - str: a sequence of symbols; a symbol is either ":" or a maximal      *)
(*    colon-free chunk of the string, so "p:m" is <<"p", ":", "m">> and    *)
(*    "" is <<>>.  Retry-After values are written one character a symbol.  *)
(*  - dict: a function; a missing key is a key outside DOMAIN.             *)
(***************************************************************************)
EXTENDS Integers, Sequences, FiniteSets, TLC

None == <<>>
Some(x) == <<x>>
IsNone(o) == o = <<>>
Val(o) == o[1]

Max2(a, b) == IF a >= b THEN a ELSE b
Min2(a, b) == IF a <= b THEN a ELSE b

RECURSIVE Pow2(_)
Pow2(n) == IF n <= 0 THEN 1 ELSE 2 * Pow2(n - 1)

DictGet(d, k, dflt) == IF k \in DOMAIN d THEN d[k] ELSE dflt

(***************************************************************************)
(* Bounds of the model                                                     *)
(***************************************************************************)
\* number of route slots that may be in flight together (concurrency level)
K == 2
\* route calls started in one behaviour of the concurrent specification
MaxRouteCalls == 3
\* the clock stops advancing by Tick past this instant
MaxClock == 170
\* seconds the clock advances in one Tick
TickStep == 61

(***************************************************************************)
(* src/router/retry.py                                                     *)
(***************************************************************************)
Digits == {"0", "1", "2", "3", "4", "5", "6", "7", "8", "9"}

DigitVal(c) ==
    CASE c = "0" -> 0 [] c = "1" -> 1 [] c = "2" -> 2 [] c = "3" -> 3
      [] c = "4" -> 4 [] c = "5" -> 5 [] c = "6" -> 6 [] c = "7" -> 7
      [] c = "8" -> 8 [] c = "9" -> 9

RECURSIVE DigitsVal(_)
DigitsVal(s) ==
    IF s = <<>> THEN 0
    ELSE 10 * DigitsVal(SubSeq(s, 1, Len(s) - 1)) + DigitVal(s[Len(s)])

AllDigits(s) == Len(s) >= 1 /\ \A i \in 1..Len(s) : s[i] \in Digits

\* int(s) of Python for strings over digits, signs and letters:
\* None when int() raises ValueError
PyInt(s) ==
    IF AllDigits(s) THEN Some(DigitsVal(s))
    ELSE IF Len(s) >= 2 /\ s[1] = "-" /\ AllDigits(Tail(s)) THEN Some(0 - DigitsVal(Tail(s)))
    ELSE IF Len(s) >= 2 /\ s[1] = "+" /\ AllDigits(Tail(s)) THEN Some(DigitsVal(Tail(s)))
    ELSE None

_extract_status_code_ResponseFirst(exc) ==
    IF ~IsNone(exc.response) THEN Val(exc.response).status_code
    ELSE exc.status_code

_extract_status_code(exc) ==
    IF ~IsNone(exc.status_code) THEN exc.status_code
    ELSE IF ~IsNone(exc.response) THEN Val(exc.response).status_code
    ELSE None

\* a header value or attribute is truthy when it is a non-empty string
Truthy(o) == ~IsNone(o) /\ Val(o) # <<>>

HeaderGet(h, k) == IF k \in DOMAIN h THEN Some(h[k]) ELSE None

_extract_retry_after(exc) ==
    IF Truthy(exc.retry_after) THEN exc.retry_after
    ELSE IF ~IsNone(exc.response)
         THEN LET headers == Val(exc.response).headers
                  lower == HeaderGet(headers, "retry-after")
                  title == HeaderGet(headers, "Retry-After")
                  retry_after == IF Truthy(lower) THEN lower ELSE title
              IN  IF Truthy(retry_after) THEN retry_after ELSE None
         ELSE None

is_retryable_BreakNoRetry(exc) ==
    LET status_code == _extract_status_code(exc)
        retry_after == _extract_retry_after(exc)
        action == IF status_code = Some(429) THEN "retry_same"
                  ELSE "switch_provider"
    IN  [action |-> action, status_code |-> status_code, retry_after |-> retry_after]

is_retryable_Break503(exc) ==
    LET status_code == _extract_status_code(exc)
        retry_after == _extract_retry_after(exc)
        action == IF status_code \in {Some(429), Some(502), Some(503), Some(504)} THEN "retry_same"
                  ELSE IF status_code \in {Some(400), Some(401), Some(403), Some(404)} THEN "no_retry"
                  ELSE "switch_provider"
    IN  [action |-> action, status_code |-> status_code, retry_after |-> retry_after]

is_retryable(exc) ==
    LET status_code == _extract_status_code(exc)
        retry_after == _extract_retry_after(exc)
        action == IF status_code = Some(429) THEN "retry_same"
                  ELSE IF status_code \in {Some(502), Some(503), Some(504)} THEN "switch_provider"
                  ELSE IF status_code \in {Some(400), Some(401), Some(403), Some(404)} THEN "no_retry"
                  ELSE "switch_provider"
    IN  [action |-> action, status_code |-> status_code, retry_after |-> retry_after]

calculate_backoff_IgnoreHeader(attempt, retry_after_header) ==
    Min2(2, Max2(1, Pow2(attempt - 1)))

calculate_backoff_Doubling(attempt, retry_after_header) ==
    LET parsed == IF Truthy(retry_after_header) THEN PyInt(Val(retry_after_header)) ELSE None
    IN  IF ~IsNone(parsed) THEN Val(parsed)
        ELSE Min2(2, Max2(1, Pow2(attempt)))

calculate_backoff(attempt, retry_after_header) ==
    LET parsed == IF Truthy(retry_after_header) THEN PyInt(Val(retry_after_header)) ELSE None
    IN  IF ~IsNone(parsed) THEN Val(parsed)
        ELSE Min2(2, Max2(1, Pow2(attempt - 1)))

(***************************************************************************)
(* src/state/budget.py                                                     *)
(***************************************************************************)
CapKeys == {"rpm", "rpd", "tpm", "tpd"}
MinuteSeconds == 60
DaySeconds == 86400
DefaultKey == <<"default">>

UsageDoc_TotalIsRequest(ts, provider, model, request_tokens, response_tokens, success, error_code) ==
    [ts |-> ts, provider |-> provider, model |-> model,
     request_tokens |-> request_tokens, response_tokens |-> response_tokens,
     total_tokens |-> request_tokens,
     success |-> success, error_code |-> error_code]

\* UsageLog(...).model_dump() as built by record_usage
UsageDoc(ts, provider, model, request_tokens, response_tokens, success, error_code) ==
    [ts |-> ts, provider |-> provider, model |-> model,
     request_tokens |-> request_tokens, response_tokens |-> response_tokens,
     total_tokens |-> request_tokens + response_tokens,
     success |-> success, error_code |-> error_code]

\* usage_logs.insert_one(doc): the row is appended, or the store fails (up is
\* FALSE) and the call raises
insert_one(col, doc, up) ==
    [raised |-> ~up, col |-> IF up THEN Append(col, doc) ELSE col]

record_usage_Reraise(col, doc, up) == insert_one(col, doc, up)

\* record_usage once the row is built: "except Exception" around insert_one
\* logs the failure and the call returns
record_usage(col, doc, up) ==
    [raised |-> FALSE, col |-> insert_one(col, doc, up).col]

RECURSIVE SumTokens(_, _, _, _)
SumTokens(col, provider, model, start) ==
    IF col = <<>> THEN [requests |-> 0, tokens |-> 0]
    ELSE LET rest == SumTokens(Tail(col), provider, model, start)
             d == Head(col)
         IN  IF d.provider = provider /\ d.model = model /\ d.ts >= start
             THEN [requests |-> rest.requests + 1, tokens |-> rest.tokens + d.total_tokens]
             ELSE rest

_aggregate_window_ProviderWide(col, provider, model, start) ==
    SumTokens([i \in 1..Len(col) |->
                  [col[i] EXCEPT !.model = IF col[i].provider = provider THEN model ELSE @]],
              provider, model, start)

_aggregate_window_SuccessOnly(col, provider, model, start) ==
    SumTokens(SelectSeq(col, LAMBDA d : d.success), provider, model, start)

_aggregate_window_Exclusive(col, provider, model, start) ==
    SumTokens(col, provider, model, start + 1)

_aggregate_window(col, provider, model, start) == SumTokens(col, provider, model, start)

get_usage_stats(col, clock, provider, model) ==
    [minute |-> _aggregate_window(col, provider, model, clock - MinuteSeconds),
     day |-> _aggregate_window(col, provider, model, clock - DaySeconds)]

_aggregate_window_when_Saturated(col, provider, model, start, up) ==
    IF up THEN _aggregate_window(col, provider, model, start)
    ELSE [requests |-> 1000, tokens |-> 1000]

\* _aggregate_window when the aggregation may fail (up is FALSE): the
\* exception is logged and the window counts as empty
_aggregate_window_when(col, provider, model, start, up) ==
    IF up THEN _aggregate_window(col, provider, model, start)
    ELSE [requests |-> 0, tokens |-> 0]

get_usage_stats_when(col, clock, provider, model, minute_up, day_up) ==
    [minute |-> _aggregate_window_when(col, provider, model, clock - MinuteSeconds, minute_up),
     day |-> _aggregate_window_when(col, provider, model, clock - DaySeconds, day_up)]

NoCaps == [k \in CapKeys |-> None]

\* a limits entry is a dict from cap names to Optional[int]; it is falsy
\* when it is missing or the empty dict
_get_limits(limits, provider, model) ==
    LET p == DictGet(limits, provider, <<>>)
        own == DictGet(p, model, <<>>)
        m == IF DOMAIN own = {} THEN DictGet(p, DefaultKey, <<>>) ELSE own
    IN  [k \in CapKeys |-> DictGet(m, k, None)]

\* any(limits.values()): a cap is truthy when it is neither None nor 0
AnyCap(caps) == \E k \in CapKeys : ~IsNone(caps[k]) /\ Val(caps[k]) # 0

OrZero(o) == IF IsNone(o) THEN 0 ELSE Val(o)

HeadroomOf_Unclamped(caps, stats, est_prompt_tokens, est_completion_tokens) ==
    LET minute == stats.minute
        day == stats.day
        est_total == OrZero(est_prompt_tokens) + OrZero(est_completion_tokens)
        rem(k, used) == IF IsNone(caps[k]) THEN None ELSE Some(Max2(Val(caps[k]) - used, used - Val(caps[k])))
        over(k, b) == ~IsNone(caps[k]) /\ b
    IN  [can_proceed |->
            ~ \/ over("rpm", minute.requests >= Val(caps["rpm"]))
              \/ over("rpd", day.requests >= Val(caps["rpd"]))
              \/ over("tpm", minute.tokens + est_total > Val(caps["tpm"]))
              \/ over("tpd", day.tokens + est_total > Val(caps["tpd"])),
         remaining |->
            [k \in CapKeys |->
                CASE k = "rpm" -> rem(k, minute.requests)
                  [] k = "rpd" -> rem(k, day.requests)
                  [] k = "tpm" -> rem(k, minute.tokens)
                  [] k = "tpd" -> rem(k, day.tokens)]]

HeadroomOf(caps, stats, est_prompt_tokens, est_completion_tokens) ==
    LET minute == stats.minute
        day == stats.day
        est_total == OrZero(est_prompt_tokens) + OrZero(est_completion_tokens)
        rem(k, used) == IF IsNone(caps[k]) THEN None ELSE Some(Max2(0, Val(caps[k]) - used))
        over(k, b) == ~IsNone(caps[k]) /\ b
    IN  [can_proceed |->
            ~ \/ over("rpm", minute.requests >= Val(caps["rpm"]))
              \/ over("rpd", day.requests >= Val(caps["rpd"]))
              \/ over("tpm", minute.tokens + est_total > Val(caps["tpm"]))
              \/ over("tpd", day.tokens + est_total > Val(caps["tpd"])),
         remaining |->
            [k \in CapKeys |->
                CASE k = "rpm" -> rem(k, minute.requests)
                  [] k = "rpd" -> rem(k, day.requests)
                  [] k = "tpm" -> rem(k, minute.tokens)
                  [] k = "tpd" -> rem(k, day.tokens)]]

check_headroom_caps(caps, stats, est_prompt_tokens, est_completion_tokens) ==
    IF ~AnyCap(caps)
    THEN [can_proceed |-> TRUE, remaining |-> NoCaps]
    ELSE HeadroomOf(caps, stats, est_prompt_tokens, est_completion_tokens)

check_headroom(limits, col, clock, provider, model, est_prompt_tokens, est_completion_tokens) ==
    check_headroom_caps(_get_limits(limits, provider, model),
                        get_usage_stats(col, clock, provider, model),
                        est_prompt_tokens, est_completion_tokens)

check_headroom_when(limits, col, clock, provider, model, est_prompt_tokens, est_completion_tokens, minute_up, day_up) ==
    check_headroom_caps(_get_limits(limits, provider, model),
                        get_usage_stats_when(col, clock, provider, model, minute_up, day_up),
                        est_prompt_tokens, est_completion_tokens)

estimate_tokens_from_request_text(len) == Max2(1, len \div 4)

(***************************************************************************)
(* Scenario data: adapters, requests, upstream outcomes                    *)
(***************************************************************************)
PA == <<"A">>
PB == <<"B">>
PC == <<"C">>
PD == <<"D">>
StrAuto == <<"auto">>

Md(name, j, t, s) ==
    [name |-> name, supports_json |-> j, supports_tools |-> t, supports_stream |-> s]

Adapter(name, models) == [name |-> name, models |-> models, models_raises |-> FALSE]

\* four registered adapters, in registration order
RegistryFour ==
    << Adapter(PA, << Md(<<"a1">>, TRUE, TRUE, TRUE), Md(<<"a2">>, TRUE, TRUE, TRUE) >>),
       Adapter(PB, << Md(<<"b1">>, TRUE, FALSE, TRUE) >>),
       Adapter(PC, << Md(<<"c1">>, TRUE, TRUE, FALSE), Md(<<"c2">>, TRUE, TRUE, TRUE) >>),
       Adapter(PD, << Md(<<"d1">>, TRUE, TRUE, TRUE) >>) >>

RegistryOne == << Adapter(PA, << Md(<<"a1">>, TRUE, TRUE, TRUE) >>) >>

Request(model, json, tools, stream) ==
    [model |-> model, messages |-> << Some(2) >>, json |-> json, tools |-> tools,
     stream |-> stream, max_tokens |-> None, response_format |-> "none"]

\* the ChatRequest objects callers hand to route_request
Requests ==
    { Request(StrAuto, FALSE, None, FALSE),
      Request(StrAuto, TRUE, Some(<<>>), TRUE),
      Request(<<>>, FALSE, None, TRUE),
      Request(<<"A", ":", "a2">>, FALSE, None, FALSE),
      Request(<<"b1">>, FALSE, None, FALSE),
      Request(<<"Z", ":", "zz">>, FALSE, None, FALSE) }

RequestsConc == { Request(StrAuto, FALSE, None, FALSE) }

Exc(cls, status_code, retry_after) ==
    [cls |-> cls, status_code |-> status_code, retry_after |-> retry_after, response |-> None]

HTTPExc(status) == Exc("HTTPExc", Some(status), None)
RLExc(retry_after) == Exc("RLExc", Some(429), retry_after)
TransportExc == Exc("ConnectError", None, None)
NoCapableProviderError(msg) ==
    [cls |-> "NoCapableProviderError", status_code |-> None, retry_after |-> None,
     response |-> None, msg |-> msg]

Failed(exc) == [ok |-> FALSE, exc |-> exc]
Replied(prompt_tokens, completion_tokens) ==
    [ok |-> TRUE, content |-> "ok",
     usage |-> [prompt_tokens |-> prompt_tokens, completion_tokens |-> completion_tokens]]

\* what one adapter.chat call may do
Outcomes ==
    { Replied(3, 2) }
    \cup { Failed(HTTPExc(s)) : s \in {400, 401, 403, 404, 500, 502, 503, 504} }
    \cup { Failed(TransportExc), Failed(RLExc(None)), Failed(RLExc(Some(<<"5">>))) }

OutcomesConc == { Replied(3, 2), Failed(HTTPExc(503)), Failed(RLExc(None)) }

\* provider_limits.yaml as loaded: provider -> model or "default" -> caps
LimitsMain ==
    [p \in {PA} |-> [m \in {<<"a1">>} |-> [k \in {"rpm"} |-> Some(1)]]]

LimitsConc ==
    { [p \in {PA} |-> [m \in {<<"a1">>} |-> [rpm |-> Some(1), rpd |-> Some(3)]]] }

StartClock == 100

(***************************************************************************)
(* State                                                                   *)
(***************************************************************************)
VARIABLES
    registry,     \* ProviderRegistry._providers, in insertion order
    budget,       \* Router._budget: None, or the BudgetManager's limits table
    usage_logs,   \* the usage_logs collection, in insertion order
    now,          \* datetime.utcnow(), in seconds
    request,      \* per route slot: the caller's ChatRequest object
    entry,        \* per route slot: that object's fields when route_request was entered
    pc,           \* per route slot: "idle", "start", "attempt", "sleeping", "returned", "raised", "cancelled"
    queue,        \* per route slot: the SelectedProvider queue
    qi,           \* per route slot: position of sp in queue
    req,          \* per route slot: the request object handed to adapter.chat
    attempt,      \* per route slot: the attempt counter of the while loop
    wake,         \* per route slot: the instant the pending asyncio.sleep ends
    last_error,   \* per route slot: Optional exception
    result,       \* per route slot: Optional response returned or exception raised
    trace,        \* per route slot: the calls made so far (models, chat, record_usage, sleep)
    started,      \* route_request calls entered so far
    peak,         \* the largest number of route_request calls in flight together so far
    headroom,     \* the latest direct check_headroom call: Optional arguments and result
    candidates,   \* per route slot: the list _list_capable_candidates returned
    posted,       \* per route slot: Optional body posted to /v1/chat/completions
    http_status,  \* per route slot: Optional status code of the HTTP response
    stats,        \* the latest direct get_usage_stats call: Optional arguments and result
    call          \* the latest direct call of a helper: Optional arguments and result

vars == << registry, budget, usage_logs, now, request, entry, pc, queue, qi, req,
           attempt, wake, last_error, result, trace, started, peak, headroom,
           candidates, posted, http_status, stats, call >>

Routes == 1..K

(***************************************************************************)
(* src/router/core.py: candidate enumeration                               *)
(***************************************************************************)
_parse_model_hint_WholeAsModel(model_field) ==
    IF model_field = <<>> \/ model_field = StrAuto THEN [provider |-> None, model |-> None]
    ELSE [provider |-> None, model |-> Some(model_field)]

_parse_model_hint_LastColon(model_field) ==
    IF model_field = <<>> \/ model_field = StrAuto THEN [provider |-> None, model |-> None]
    ELSE IF \E i \in 1..Len(model_field) : model_field[i] = ":"
         THEN LET i == CHOOSE i \in 1..Len(model_field) :
                           /\ model_field[i] = ":"
                           /\ \A j \in (i + 1)..Len(model_field) : model_field[j] # ":"
              IN  [provider |-> Some(SubSeq(model_field, 1, i - 1)),
                   model |-> Some(SubSeq(model_field, i + 1, Len(model_field)))]
         ELSE [provider |-> None, model |-> Some(model_field)]

_parse_model_hint(model_field) ==
    IF model_field = <<>> \/ model_field = StrAuto THEN [provider |-> None, model |-> None]
    ELSE IF \E i \in 1..Len(model_field) : model_field[i] = ":"
         THEN LET i == CHOOSE i \in 1..Len(model_field) :
                           /\ model_field[i] = ":"
                           /\ \A j \in 1..(i - 1) : model_field[j] # ":"
              IN  [provider |-> Some(SubSeq(model_field, 1, i - 1)),
                   model |-> Some(SubSeq(model_field, i + 1, Len(model_field)))]
         ELSE [provider |-> None, model |-> Some(model_field)]

RECURSIVE TextLen(_)
TextLen(messages) ==
    IF messages = <<>> THEN 0
    ELSE OrZero(Head(messages)) + (IF Len(messages) > 1 THEN 1 ELSE 0) + TextLen(Tail(messages))

_estimate_prompt_tokens(rq) == estimate_tokens_from_request_text(TextLen(rq.messages))

_estimate_completion_tokens(rq) == IF IsNone(rq.max_tokens) THEN 256 ELSE Val(rq.max_tokens)

requires_json(rq) == rq.json \/ rq.response_format = "json_object"
requires_tools_NonEmpty(rq) == Truthy(rq.tools)

requires_tools(rq) == ~IsNone(rq.tools)
requires_stream(rq) == rq.stream

\* the body of "for m in models" for one descriptor: does it emit a candidate
ModelSurvives_NoBudget(m, provider_name, rq, hint, bud, col, clock) ==
    LET name == DictGet(m, "name", <<>>)
    IN  /\ name # <<>>
        /\ ~Truthy(hint.model) \/ name = Val(hint.model)
        /\ ~requires_json(rq) \/ DictGet(m, "supports_json", FALSE)
        /\ ~requires_tools(rq) \/ DictGet(m, "supports_tools", FALSE)
        /\ ~requires_stream(rq) \/ DictGet(m, "supports_stream", FALSE)

ModelSurvives(m, provider_name, rq, hint, bud, col, clock) ==
    LET name == DictGet(m, "name", <<>>)
    IN  /\ name # <<>>
        /\ ~Truthy(hint.model) \/ name = Val(hint.model)
        /\ ~requires_json(rq) \/ DictGet(m, "supports_json", FALSE)
        /\ ~requires_tools(rq) \/ DictGet(m, "supports_tools", FALSE)
        /\ ~requires_stream(rq) \/ DictGet(m, "supports_stream", FALSE)
        /\ \/ IsNone(bud)
           \/ check_headroom(Val(bud), col, clock, provider_name, name,
                             Some(_estimate_prompt_tokens(rq)),
                             Some(_estimate_completion_tokens(rq))).can_proceed

RECURSIVE ModelCandidates(_, _, _, _, _, _, _)
ModelCandidates(models, provider_name, rq, hint, bud, col, clock) ==
    IF models = <<>> THEN <<>>
    ELSE (IF ModelSurvives(Head(models), provider_name, rq, hint, bud, col, clock)
          THEN << [provider |-> provider_name, model |-> Head(models).name] >>
          ELSE <<>>)
         \o ModelCandidates(Tail(models), provider_name, rq, hint, bud, col, clock)

RECURSIVE ProviderCandidates(_, _, _, _, _, _)
ProviderCandidates(providers, rq, hint, bud, col, clock) ==
    IF providers = <<>> THEN <<>>
    ELSE LET provider == Head(providers)
             skip == \/ Truthy(hint.provider) /\ provider.name # Val(hint.provider)
                     \/ provider.models_raises
         IN  (IF skip THEN <<>>
              ELSE ModelCandidates(provider.models, provider.name, rq, hint, bud, col, clock))
             \o ProviderCandidates(Tail(providers), rq, hint, bud, col, clock)

ModelsEvent(provider, raised) == [kind |-> "models", provider |-> provider, raised |-> raised]

\* the provider.models() calls of one enumeration, in order
RECURSIVE ModelsCalls(_, _)
ModelsCalls(providers, hint) ==
    IF providers = <<>> THEN <<>>
    ELSE LET provider == Head(providers)
         IN  (IF Truthy(hint.provider) /\ provider.name # Val(hint.provider) THEN <<>>
              ELSE << ModelsEvent(provider.name, provider.models_raises) >>)
             \o ModelsCalls(Tail(providers), hint)

HeadroomEvent(provider, model) == [kind |-> "headroom", provider |-> provider, model |-> model]

\* the check_headroom calls made while one adapter's models are filtered: one
\* for each model that got past the name, hint and capability tests, when a
\* budget manager is configured
RECURSIVE HeadroomCalls(_, _, _, _, _)
HeadroomCalls(models, provider_name, rq, hint, bud) ==
    IF models = <<>> THEN <<>>
    ELSE LET m == Head(models)
             name == DictGet(m, "name", <<>>)
             reached == /\ name # <<>>
                        /\ ~Truthy(hint.model) \/ name = Val(hint.model)
                        /\ ~requires_json(rq) \/ DictGet(m, "supports_json", FALSE)
                        /\ ~requires_tools(rq) \/ DictGet(m, "supports_tools", FALSE)
                        /\ ~requires_stream(rq) \/ DictGet(m, "supports_stream", FALSE)
                        /\ ~IsNone(bud)
         IN  (IF reached THEN << HeadroomEvent(provider_name, name) >> ELSE <<>>)
             \o HeadroomCalls(Tail(models), provider_name, rq, hint, bud)

\* the adapter and budget calls of one enumeration, in order
RECURSIVE EnumerationCalls(_, _, _, _)
EnumerationCalls(providers, rq, hint, bud) ==
    IF providers = <<>> THEN <<>>
    ELSE LET provider == Head(providers)
         IN  (IF Truthy(hint.provider) /\ provider.name # Val(hint.provider) THEN <<>>
              ELSE << ModelsEvent(provider.name, provider.models_raises) >>
                   \o (IF provider.models_raises THEN <<>>
                       ELSE HeadroomCalls(provider.models, provider.name, rq, hint, bud)))
             \o EnumerationCalls(Tail(providers), rq, hint, bud)

_list_capable_candidates_FailClosed(reg, rq, bud, col, clock) ==
    IF \E a \in 1..Len(reg) : reg[a].models_raises \/ reg[a].models = <<>>
    THEN <<>>
    ELSE ProviderCandidates(reg, rq, _parse_model_hint(rq.model), bud, col, clock)

_list_capable_candidates_Reversed(reg, rq, bud, col, clock) ==
    LET c == ProviderCandidates(reg, rq, _parse_model_hint(rq.model), bud, col, clock)
    IN  [i \in 1..Len(c) |-> c[Len(c) + 1 - i]]

_list_capable_candidates(reg, rq, bud, col, clock) ==
    ProviderCandidates(reg, rq, _parse_model_hint(rq.model), bud, col, clock)

MaxProviders_Four == 3 + 1

MaxProviders == 3

BuildQueue_EveryModel(found, acc) == SubSeq(found, 1, Min2(Len(found), MaxProviders))

\* "Unique providers (preserve first model per provider)", at most 3
RECURSIVE BuildQueue(_, _)
BuildQueue(found, acc) ==
    IF found = <<>> \/ Len(acc) >= MaxProviders THEN acc
    ELSE IF \E i \in 1..Len(acc) : acc[i].provider = Head(found).provider
         THEN BuildQueue(Tail(found), acc)
         ELSE BuildQueue(Tail(found), Append(acc, Head(found)))

(***************************************************************************)
(* src/router/core.py: the retry/failover loop                             *)
(***************************************************************************)
MaxAttempts_Three == 2 + 1

MaxAttempts == 2

\* "req = request.model and request or request.copy()": the object the loop
\* body works on is the caller's own object unless its model is the empty string
Aliased(rq) == rq.model # <<>>

\* the top of the "for sp in queue" body: the object handed to chat, and the
\* caller's object afterwards
Prepared_KeepStream(rq, sp) == [rq EXCEPT !.model = sp.model]

Prepared(rq, sp) == [rq EXCEPT !.model = sp.model, !.stream = FALSE]
CallerAfter_Copy(rq, sp) == rq

CallerAfter(rq, sp) == IF Aliased(rq) THEN Prepared(rq, sp) ELSE rq

ChatEvent(sp, rq, outcome) ==
    [kind |-> "chat", provider |-> sp.provider, model |-> sp.model, req |-> rq,
     outcome |-> outcome]
RecordEvent(doc) == [kind |-> "record", doc |-> doc]

AttemptCalls_Recheck(sp, rq, outcome) ==
    << [kind |-> "headroom", provider |-> sp.provider, model |-> sp.model],
       ChatEvent(sp, rq, outcome) >>

\* what one pass through the try block calls before the outcome is recorded:
\* provider.chat alone
AttemptCalls(sp, rq, outcome) == << ChatEvent(sp, rq, outcome) >>
SleepEvent(d) == [kind |-> "sleep", delay |-> d]

RecordCalls_SuccessOnly(bud, doc) ==
    IF IsNone(bud) \/ ~doc.success THEN <<>> ELSE << RecordEvent(doc) >>

\* BudgetManager.record_usage is called only when a budget manager is set
RecordCalls(bud, doc) == IF IsNone(bud) THEN <<>> ELSE << RecordEvent(doc) >>
Inserted(bud, col, doc, up) == IF IsNone(bud) THEN col ELSE record_usage(col, doc, up).col

ErrorCode(status_code) == status_code

Returned(resp) == Some([raised |-> FALSE, value |-> resp])
Raised(exc) == Some([raised |-> TRUE, value |-> exc])

ExhaustedError_Reraise(last) == Raised(last)

\* "Exhausted all providers": last is only logged
ExhaustedError(last) ==
    Raised(NoCapableProviderError("All providers exhausted by retry/failover"))

\* route_request up to the first adapter.chat call: enumeration, queue, and
\* the preparation of the request for the first candidate
Enumerate(r) ==
    /\ pc[r] = "start"
    /\ LET found == _list_capable_candidates(registry, request[r], budget, usage_logs, now)
           q == BuildQueue(found, <<>>)
       IN  /\ candidates' = [candidates EXCEPT ![r] = found]
           /\ IF found = <<>>
              THEN /\ pc' = [pc EXCEPT ![r] = "raised"]
                   /\ result' = [result EXCEPT ![r] =
                                    Raised(NoCapableProviderError("No capable provider candidates"))]
                   /\ UNCHANGED << queue, qi, req, request >>
              ELSE /\ pc' = [pc EXCEPT ![r] = "attempt"]
                   /\ queue' = [queue EXCEPT ![r] = q]
                   /\ qi' = [qi EXCEPT ![r] = 1]
                   /\ req' = [req EXCEPT ![r] = Prepared(request[r], q[1])]
                   /\ request' = [request EXCEPT ![r] = CallerAfter(request[r], q[1])]
                   /\ UNCHANGED result
    /\ attempt' = [attempt EXCEPT ![r] = 0]
    /\ trace' = [trace EXCEPT ![r] =
                    @ \o EnumerationCalls(registry, request[r], _parse_model_hint(request[r].model),
                                          budget)]
    /\ UNCHANGED << registry, budget, usage_logs, now, entry, wake, last_error, started,
                    peak, headroom, posted, http_status, stats, call >>

AttemptDoc_ClientModel(r, outcome) ==
    LET sp == queue[r][qi[r]]
    IN  IF outcome.ok
        THEN UsageDoc(now, sp.provider, entry[r].model, outcome.usage.prompt_tokens,
                      outcome.usage.completion_tokens, TRUE, None)
        ELSE UsageDoc(now, sp.provider, entry[r].model, 0, 0, FALSE,
                      ErrorCode(is_retryable(outcome.exc).status_code))

\* the row the loop hands to record_usage after the chat call
AttemptDoc(r, outcome) ==
    LET sp == queue[r][qi[r]]
    IN  IF outcome.ok
        THEN UsageDoc(now, sp.provider, sp.model, outcome.usage.prompt_tokens,
                      outcome.usage.completion_tokens, TRUE, None)
        ELSE UsageDoc(now, sp.provider, sp.model, 0, 0, FALSE,
                      ErrorCode(is_retryable(outcome.exc).status_code))

\* one pass of the while loop body: adapter.chat, record_usage, and what the
\* loop does next; up tells whether the store takes the row
AttemptWith(r, outcome, up) ==
    /\ pc[r] = "attempt"
    /\ attempt[r] < MaxAttempts
    /\ LET sp == queue[r][qi[r]]
           n == attempt[r] + 1
           called == AttemptCalls(sp, req[r], outcome)
           doc == AttemptDoc(r, outcome)
       IN  IF outcome.ok
           THEN LET resp == [model |-> req[r].model, content |-> outcome.content,
                             usage |-> outcome.usage]
                IN  /\ usage_logs' = Inserted(budget, usage_logs, doc, up)
                    /\ trace' = [trace EXCEPT ![r] = @ \o called \o RecordCalls(budget, doc)]
                    /\ result' = [result EXCEPT ![r] = Returned(resp)]
                    /\ pc' = [pc EXCEPT ![r] = "returned"]
                    /\ attempt' = [attempt EXCEPT ![r] = n]
                    /\ UNCHANGED << qi, req, request, wake, last_error >>
           ELSE LET e == outcome.exc
                    c == is_retryable(e)
                    recorded == called \o RecordCalls(budget, doc)
                IN  /\ usage_logs' = Inserted(budget, usage_logs, doc, up)
                    /\ last_error' = [last_error EXCEPT ![r] = Some(e)]
                    /\ IF c.action = "retry_same" /\ n < MaxAttempts
                       THEN LET d == calculate_backoff(n, c.retry_after)
                            IN  /\ trace' = [trace EXCEPT ![r] = @ \o recorded \o << SleepEvent(d) >>]
                                /\ wake' = [wake EXCEPT ![r] = now + Max2(0, d)]
                                /\ pc' = [pc EXCEPT ![r] = "sleeping"]
                                /\ attempt' = [attempt EXCEPT ![r] = n]
                                /\ UNCHANGED << qi, req, request, result >>
                       ELSE IF c.action = "no_retry"
                       THEN /\ trace' = [trace EXCEPT ![r] = @ \o recorded]
                            /\ result' = [result EXCEPT ![r] = Raised(e)]
                            /\ pc' = [pc EXCEPT ![r] = "raised"]
                            /\ attempt' = [attempt EXCEPT ![r] = n]
                            /\ UNCHANGED << qi, req, request, wake >>
                       ELSE IF qi[r] < Len(queue[r])
                       THEN LET next == queue[r][qi[r] + 1]
                            IN  /\ trace' = [trace EXCEPT ![r] = @ \o recorded]
                                /\ qi' = [qi EXCEPT ![r] = @ + 1]
                                /\ req' = [req EXCEPT ![r] = Prepared(request[r], next)]
                                /\ request' = [request EXCEPT ![r] = CallerAfter(request[r], next)]
                                /\ attempt' = [attempt EXCEPT ![r] = 0]
                                /\ UNCHANGED << pc, wake, result >>
                       ELSE /\ trace' = [trace EXCEPT ![r] = @ \o recorded]
                            /\ result' = [result EXCEPT ![r] = ExhaustedError(e)]
                            /\ pc' = [pc EXCEPT ![r] = "raised"]
                            /\ attempt' = [attempt EXCEPT ![r] = n]
                            /\ UNCHANGED << qi, req, request, wake >>
    /\ UNCHANGED << registry, budget, now, entry, queue, started, peak, headroom,
                    candidates, posted, http_status, stats, call >>

\* "await asyncio.sleep(delay)" returns, and the loop continues

\* the pass when the store takes the row
Attempt(r, outcome) == AttemptWith(r, outcome, TRUE)

\* the pass when insert_one fails
AttemptDown(r, outcome) ==
    /\ ~IsNone(budget)
    /\ AttemptWith(r, outcome, FALSE)

SleepDone(r) ==
    /\ pc[r] = "sleeping"
    /\ now' = Max2(now, wake[r])
    /\ pc' = [pc EXCEPT ![r] = "attempt"]
    /\ UNCHANGED << registry, budget, usage_logs, request, entry, queue, qi, req, attempt,
                    wake, last_error, result, trace, started, peak, headroom,
                    candidates, posted, http_status, stats, call >>

InFlight(x) == pc[x] \in {"start", "attempt", "sleeping"}

\* a caller invokes route_request with a fresh ChatRequest; the call takes the
\* lowest slot that is not in flight
NewCall(r, rq) ==
    /\ ~InFlight(r)
    /\ \A x \in 1..(r - 1) : InFlight(x)
    /\ started < MaxRouteCalls
    /\ started' = started + 1
    /\ request' = [request EXCEPT ![r] = rq]
    /\ entry' = [entry EXCEPT ![r] = rq]
    /\ pc' = [pc EXCEPT ![r] = "start"]
    /\ queue' = [queue EXCEPT ![r] = <<>>]
    /\ qi' = [qi EXCEPT ![r] = 0]
    /\ req' = [req EXCEPT ![r] = rq]
    /\ attempt' = [attempt EXCEPT ![r] = 0]
    /\ wake' = [wake EXCEPT ![r] = 0]
    /\ last_error' = [last_error EXCEPT ![r] = None]
    /\ result' = [result EXCEPT ![r] = None]
    /\ trace' = [trace EXCEPT ![r] = <<>>]
    /\ peak' = Max2(peak, Cardinality({x \in Routes : x = r \/ InFlight(x)}))
    /\ candidates' = [candidates EXCEPT ![r] = <<>>]
    /\ UNCHANGED << registry, budget, usage_logs, now, headroom, posted, http_status, stats, call >>

\* wall-clock time passes
Tick ==
    /\ now + TickStep <= MaxClock
    /\ now' = now + TickStep
    /\ UNCHANGED << registry, budget, usage_logs, request, entry, pc, queue, qi, req,
                    attempt, wake, last_error, result, trace, started, peak,
                    headroom, candidates, posted, http_status, stats, call >>

\* no candidate list, no HTTP exchange and no direct get_usage_stats call yet
NothingElse ==
    /\ candidates = [r \in Routes |-> <<>>]
    /\ posted = [r \in Routes |-> None]
    /\ http_status = [r \in Routes |-> None]
    /\ stats = None
    /\ call = None

\* a usage row written before the behaviour starts
SeedRow == UsageDoc(StartClock, PA, <<"a1">>, 3, 2, TRUE, None)

\* one route_request call on a registry of four adapters
Init ==
    /\ registry = RegistryFour
    /\ budget \in {None, Some(LimitsMain)}
    /\ usage_logs = << SeedRow >>
    /\ now = StartClock
    /\ \E rq \in Requests :
          /\ request = [r \in Routes |-> rq]
          /\ entry = [r \in Routes |-> rq]
          /\ req = [r \in Routes |-> rq]
    /\ pc = [r \in Routes |-> IF r = 1 THEN "start" ELSE "idle"]
    /\ queue = [r \in Routes |-> <<>>]
    /\ qi = [r \in Routes |-> 0]
    /\ attempt = [r \in Routes |-> 0]
    /\ wake = [r \in Routes |-> 0]
    /\ last_error = [r \in Routes |-> None]
    /\ result = [r \in Routes |-> None]
    /\ trace = [r \in Routes |-> <<>>]
    /\ started = 1
    /\ peak = 1
    /\ headroom = None
    /\ NothingElse

Next ==
    \/ Enumerate(1)
    \/ \E o \in Outcomes : Attempt(1, o)
    \/ SleepDone(1)

Spec == Init /\ [][Next]_vars

\* descriptors that leave capability flags out, and one without a name
RegistrySparse ==
    << Adapter(PA, << [supports_json |-> TRUE, supports_tools |-> TRUE, supports_stream |-> TRUE],
                      [name |-> <<"a1">>],
                      [name |-> <<"a2">>, supports_json |-> TRUE] >>),
       Adapter(PB, << Md(<<"b1">>, TRUE, TRUE, TRUE) >>) >>

\* the first adapter's models() raises
RegistryRaises ==
    << [Adapter(PA, << Md(<<"a1">>, TRUE, TRUE, TRUE) >>) EXCEPT !.models_raises = TRUE],
       Adapter(PB, << Md(<<"b1">>, TRUE, TRUE, TRUE) >>) >>

\* the first adapter's models() raises and the second's returns no model
RegistryFaulty ==
    << [Adapter(PA, << Md(<<"a1">>, TRUE, TRUE, TRUE) >>) EXCEPT !.models_raises = TRUE],
       Adapter(PB, << >>),
       Adapter(PC, << Md(<<"c1">>, TRUE, TRUE, FALSE), Md(<<"c2">>, TRUE, TRUE, TRUE) >>),
       Adapter(PD, << Md(<<"d1">>, TRUE, TRUE, TRUE) >>) >>

Registries == { RegistryFour, RegistrySparse, RegistryRaises, RegistryFaulty }

\* ChatRequest objects covering each requirement alone, all together, and
\* every shape of the model field
RequestsSelect ==
    { Request(StrAuto, FALSE, None, FALSE),
      Request(StrAuto, TRUE, None, FALSE),
      Request(StrAuto, FALSE, Some(<<>>), FALSE),
      Request(StrAuto, FALSE, None, TRUE),
      [Request(StrAuto, FALSE, None, FALSE) EXCEPT !.response_format = "json_object"],
      [Request(StrAuto, FALSE, None, FALSE) EXCEPT !.response_format = "text"],
      Request(StrAuto, TRUE, Some(<<>>), TRUE),
      Request(<<"A", ":", "a1">>, FALSE, None, FALSE),
      Request(<<"A", ":", "a2">>, FALSE, None, FALSE),
      Request(<<"A", ":">>, FALSE, None, FALSE),
      Request(<<"C", ":", "c1">>, FALSE, None, TRUE),
      Request(<<"B", ":", "b1">>, FALSE, Some(<<>>), FALSE),
      Request(<<"b1">>, FALSE, None, FALSE),
      Request(<<":", "b1">>, FALSE, None, FALSE),
      Request(<<"Z", ":", "zz">>, FALSE, None, FALSE) }

\* one route_request call, over every registry and request above
InitSelect ==
    /\ registry \in Registries
    /\ budget \in {None, Some(LimitsMain)}
    /\ usage_logs = << SeedRow >>
    /\ now = StartClock
    /\ \E rq \in RequestsSelect :
          /\ request = [r \in Routes |-> rq]
          /\ entry = [r \in Routes |-> rq]
          /\ req = [r \in Routes |-> rq]
    /\ pc = [r \in Routes |-> IF r = 1 THEN "start" ELSE "idle"]
    /\ queue = [r \in Routes |-> <<>>]
    /\ qi = [r \in Routes |-> 0]
    /\ attempt = [r \in Routes |-> 0]
    /\ wake = [r \in Routes |-> 0]
    /\ last_error = [r \in Routes |-> None]
    /\ result = [r \in Routes |-> None]
    /\ trace = [r \in Routes |-> <<>>]
    /\ started = 1
    /\ peak = 1
    /\ headroom = None
    /\ NothingElse

SpecSelect == InitSelect /\ [][Next]_vars

\* route_request calls arriving over time, up to K of them in flight together,
\* against one adapter with a configured request cap
InitConc ==
    /\ registry = RegistryOne
    /\ budget \in { Some(l) : l \in LimitsConc }
    /\ usage_logs = <<>>
    /\ now = StartClock
    /\ \E rq \in RequestsConc :
          /\ request = [r \in Routes |-> rq]
          /\ entry = [r \in Routes |-> rq]
          /\ req = [r \in Routes |-> rq]
    /\ pc = [r \in Routes |-> "idle"]
    /\ queue = [r \in Routes |-> <<>>]
    /\ qi = [r \in Routes |-> 0]
    /\ attempt = [r \in Routes |-> 0]
    /\ wake = [r \in Routes |-> 0]
    /\ last_error = [r \in Routes |-> None]
    /\ result = [r \in Routes |-> None]
    /\ trace = [r \in Routes |-> <<>>]
    /\ started = 0
    /\ peak = 0
    /\ headroom = None
    /\ NothingElse

NextConc ==
    \/ \E r \in Routes, rq \in RequestsConc : NewCall(r, rq)
    \/ \E r \in Routes : Enumerate(r)
    \/ \E r \in Routes, o \in OutcomesConc : Attempt(r, o)
    \/ \E r \in Routes : SleepDone(r)
    \/ Tick

SpecConc == InitConc /\ [][NextConc]_vars

(***************************************************************************)
(* src/gateway/main.py: POST /v1/chat/completions, and the cancellation of *)
(* the request's task when the client disconnects                          *)
(***************************************************************************)
\* the object chat_completions hands to route_request: a copy with stream
\* cleared when the body asks for streaming, else the body itself
Routed(body) == IF body.stream THEN [body EXCEPT !.stream = FALSE] ELSE body

\* chat_completions up to "await router.route_request(...)"
ChatCompletions(r, body) ==
    /\ pc[r] = "idle"
    /\ posted' = [posted EXCEPT ![r] = Some(body)]
    /\ http_status' = [http_status EXCEPT ![r] = None]
    /\ started' = started + 1
    /\ request' = [request EXCEPT ![r] = Routed(body)]
    /\ entry' = [entry EXCEPT ![r] = Routed(body)]
    /\ req' = [req EXCEPT ![r] = Routed(body)]
    /\ pc' = [pc EXCEPT ![r] = "start"]
    /\ peak' = Max2(peak, Cardinality({x \in Routes : x = r \/ InFlight(x)}))
    /\ UNCHANGED << registry, budget, usage_logs, now, queue, qi, attempt, wake, last_error,
                    result, trace, headroom, candidates, stats, call >>

\* the status code of the response: 200 for a returned ChatResponse, 503 for
\* NoCapableProviderError, else getattr(e, "status_code", 500)
StatusOf(res) ==
    IF ~res.raised THEN 200
    ELSE IF res.value.cls = "NoCapableProviderError" THEN 503
    ELSE IF IsNone(res.value.status_code) THEN 500
    ELSE Val(res.value.status_code)

\* chat_completions from the return of route_request to the response
Respond(r) ==
    /\ pc[r] \in {"returned", "raised"}
    /\ ~IsNone(posted[r])
    /\ IsNone(http_status[r])
    /\ http_status' = [http_status EXCEPT ![r] = Some(StatusOf(Val(result[r])))]
    /\ UNCHANGED << registry, budget, usage_logs, now, request, entry, pc, queue, qi, req,
                    attempt, wake, last_error, result, trace, started, peak, headroom,
                    candidates, posted, stats, call >>

\* asyncio.CancelledError derives from BaseException (Python 3.8 and later)
CancelledError == Exc("CancelledError", None, None)

\* the task is cancelled while "await sp.provider.chat(req)" is pending: the
\* CancelledError passes "except Exception" and leaves route_request
CancelChat(r) ==
    /\ pc[r] = "attempt"
    /\ attempt[r] < MaxAttempts
    /\ trace' = [trace EXCEPT ![r] =
                    Append(@, ChatEvent(queue[r][qi[r]], req[r], Failed(CancelledError)))]
    /\ attempt' = [attempt EXCEPT ![r] = @ + 1]
    /\ pc' = [pc EXCEPT ![r] = "cancelled"]
    /\ result' = [result EXCEPT ![r] = Raised(CancelledError)]
    /\ UNCHANGED << registry, budget, usage_logs, now, request, entry, queue, qi, req, wake,
                    last_error, started, peak, headroom, candidates, posted, http_status,
                    stats, call >>

\* the task is cancelled while "await asyncio.sleep(delay)" is pending, inside
\* the except block: the CancelledError leaves route_request
CancelSleep(r) ==
    /\ pc[r] = "sleeping"
    /\ pc' = [pc EXCEPT ![r] = "cancelled"]
    /\ result' = [result EXCEPT ![r] = Raised(CancelledError)]
    /\ UNCHANGED << registry, budget, usage_logs, now, request, entry, queue, qi, req,
                    attempt, wake, last_error, trace, started, peak, headroom, candidates,
                    posted, http_status, stats, call >>

\* the request bodies posted to the gateway
Bodies ==
    { Request(StrAuto, FALSE, None, FALSE),
      Request(StrAuto, FALSE, None, TRUE),
      Request(<<"C", ":", "c1">>, FALSE, None, TRUE),
      Request(<<"C", ":", "c1">>, FALSE, None, FALSE) }

\* the gateway after startup_event: registry, budget manager and router built,
\* no request received yet
InitGateway ==
    /\ registry = RegistryFour
    /\ budget = Some(LimitsMain)
    /\ usage_logs = << SeedRow >>
    /\ now = StartClock
    /\ \E rq \in RequestsConc :
          /\ request = [r \in Routes |-> rq]
          /\ entry = [r \in Routes |-> rq]
          /\ req = [r \in Routes |-> rq]
    /\ pc = [r \in Routes |-> "idle"]
    /\ queue = [r \in Routes |-> <<>>]
    /\ qi = [r \in Routes |-> 0]
    /\ attempt = [r \in Routes |-> 0]
    /\ wake = [r \in Routes |-> 0]
    /\ last_error = [r \in Routes |-> None]
    /\ result = [r \in Routes |-> None]
    /\ trace = [r \in Routes |-> <<>>]
    /\ started = 0
    /\ peak = 0
    /\ headroom = None
    /\ NothingElse

NextGateway ==
    \/ \E body \in Bodies : ChatCompletions(1, body)
    \/ Enumerate(1)
    \/ \E o \in Outcomes : Attempt(1, o)
    \/ SleepDone(1)
    \/ CancelChat(1)
    \/ CancelSleep(1)
    \/ Respond(1)

SpecGateway == InitGateway /\ [][NextGateway]_vars

(***************************************************************************)
(* The Budget Manager called directly (as /v1/router/state and the tests   *)
(* do): record_usage with an explicit ts, and check_headroom               *)
(***************************************************************************)
\* rows the direct-call specification may insert
MaxRows == 2

HeadroomCaps == {None, Some(0), Some(1), Some(2)}
HeadroomEstimates == {None, Some(0), Some(1)}
\* the rows inserted directly: a failed attempt without tokens, a success with tokens
HeadroomRows == { [tokens |-> <<0, 0>>, success |-> FALSE], [tokens |-> <<1, 1>>, success |-> TRUE] }

LimitsHeadroom ==
    { [p \in {PA} |-> [m \in {<<"a1">>} |-> caps]] : caps \in [CapKeys -> HeadroomCaps] }

RecordUsage(provider, model, tokens, success, ts) ==
    /\ ~IsNone(budget)
    /\ Len(usage_logs) < MaxRows
    /\ usage_logs' = Append(usage_logs,
           UsageDoc(IF IsNone(ts) THEN now ELSE Val(ts), provider, model,
                    tokens[1], tokens[2], success, None))
    /\ UNCHANGED << registry, budget, now, request, entry, pc, queue, qi, req, attempt,
                    wake, last_error, result, trace, started, peak, headroom,
                    candidates, posted, http_status, stats, call >>

CheckHeadroom(provider, model, est_prompt_tokens, est_completion_tokens) ==
    /\ ~IsNone(budget)
    /\ headroom' = Some([provider |-> provider, model |-> model,
                         est_prompt_tokens |-> est_prompt_tokens,
                         est_completion_tokens |-> est_completion_tokens,
                         col |-> usage_logs, clock |-> now,
                         result |-> check_headroom(Val(budget), usage_logs, now, provider, model,
                                                   est_prompt_tokens, est_completion_tokens)])
    /\ UNCHANGED << registry, budget, usage_logs, now, request, entry, pc, queue, qi, req,
                    attempt, wake, last_error, result, trace, started, peak,
                    candidates, posted, http_status, stats, call >>

InitHeadroom ==
    /\ registry = RegistryOne
    /\ budget \in { Some(l) : l \in LimitsHeadroom }
    /\ usage_logs = <<>>
    /\ now = StartClock
    /\ \E rq \in RequestsConc :
          /\ request = [r \in Routes |-> rq]
          /\ entry = [r \in Routes |-> rq]
          /\ req = [r \in Routes |-> rq]
    /\ pc = [r \in Routes |-> "idle"]
    /\ queue = [r \in Routes |-> <<>>]
    /\ qi = [r \in Routes |-> 0]
    /\ attempt = [r \in Routes |-> 0]
    /\ wake = [r \in Routes |-> 0]
    /\ last_error = [r \in Routes |-> None]
    /\ result = [r \in Routes |-> None]
    /\ trace = [r \in Routes |-> <<>>]
    /\ started = 0
    /\ peak = 0
    /\ headroom = None
    /\ NothingElse

NextHeadroom ==
    \/ \E row \in HeadroomRows, ts \in {None, Some(now - MinuteSeconds - 1)} :
          RecordUsage(PA, <<"a1">>, row.tokens, row.success, ts)
    \/ \E ep \in HeadroomEstimates, ec \in HeadroomEstimates :
          CheckHeadroom(PA, <<"a1">>, ep, ec)

SpecHeadroom == InitHeadroom /\ [][NextHeadroom]_vars

\* limits tables of every shape _get_limits distinguishes: an entry for the
\* model, an empty entry, an entry of null caps, a "default" entry, neither,
\* and no entry for the provider
LimitsTables ==
    { [p \in {PA} |-> [m \in {<<"a1">>} |-> [rpm |-> Some(1), tpm |-> Some(2)]]],
      [p \in {PA} |-> [m \in {<<"a1">>} |-> [rpd |-> Some(2), tpd |-> Some(1)]]],
      [p \in {PA} |-> [m \in {<<"a1">>} |-> [rpm |-> Some(0), rpd |-> Some(2)]]],
      [p \in {PA} |-> [m \in {<<"a1">>, DefaultKey} |->
                          IF m = DefaultKey THEN [rpm |-> Some(1)] ELSE <<>>]],
      [p \in {PA} |-> [m \in {<<"a1">>, DefaultKey} |->
                          IF m = DefaultKey THEN [rpm |-> Some(1)] ELSE [rpm |-> None]]],
      [p \in {PA} |-> [m \in {<<"a1">>, DefaultKey} |->
                          IF m = DefaultKey THEN [rpm |-> Some(1)] ELSE [tpd |-> Some(2)]]],
      [p \in {PA} |-> [m \in {DefaultKey} |-> [rpd |-> Some(1), tpd |-> Some(2)]]],
      [p \in {PA} |-> [m \in {<<"a2">>} |-> [rpm |-> Some(1)]]],
      [p \in {PB} |-> [m \in {<<"a1">>} |-> [rpm |-> Some(1)]]] }

InitLimits ==
    /\ registry = RegistryOne
    /\ budget \in { Some(l) : l \in LimitsTables }
    /\ usage_logs = <<>>
    /\ now = StartClock
    /\ \E rq \in RequestsConc :
          /\ request = [r \in Routes |-> rq]
          /\ entry = [r \in Routes |-> rq]
          /\ req = [r \in Routes |-> rq]
    /\ pc = [r \in Routes |-> "idle"]
    /\ queue = [r \in Routes |-> <<>>]
    /\ qi = [r \in Routes |-> 0]
    /\ attempt = [r \in Routes |-> 0]
    /\ wake = [r \in Routes |-> 0]
    /\ last_error = [r \in Routes |-> None]
    /\ result = [r \in Routes |-> None]
    /\ trace = [r \in Routes |-> <<>>]
    /\ started = 0
    /\ peak = 0
    /\ headroom = None
    /\ NothingElse

SpecLimits == InitLimits /\ [][NextHeadroom]_vars

\* a direct get_usage_stats call
GetUsageStats(provider, model) ==
    /\ ~IsNone(budget)
    /\ stats' = Some([provider |-> provider, model |-> model, col |-> usage_logs,
                      clock |-> now,
                      result |-> get_usage_stats(usage_logs, now, provider, model)])
    /\ UNCHANGED << registry, budget, usage_logs, now, request, entry, pc, queue, qi, req,
                    attempt, wake, last_error, result, trace, started, peak, headroom,
                    candidates, posted, http_status, call >>

\* the ts arguments of the direct record_usage calls: none (the row is
\* stamped utcnow()), and instants on and one second before each window boundary
Stamps ==
    { None, Some(now - MinuteSeconds), Some(now - MinuteSeconds - 1),
      Some(now - DaySeconds), Some(now - DaySeconds - 1) }

InitStats ==
    /\ registry = RegistryOne
    /\ budget = Some(LimitsMain)
    /\ usage_logs = <<>>
    /\ now = StartClock
    /\ \E rq \in RequestsConc :
          /\ request = [r \in Routes |-> rq]
          /\ entry = [r \in Routes |-> rq]
          /\ req = [r \in Routes |-> rq]
    /\ pc = [r \in Routes |-> "idle"]
    /\ queue = [r \in Routes |-> <<>>]
    /\ qi = [r \in Routes |-> 0]
    /\ attempt = [r \in Routes |-> 0]
    /\ wake = [r \in Routes |-> 0]
    /\ last_error = [r \in Routes |-> None]
    /\ result = [r \in Routes |-> None]
    /\ trace = [r \in Routes |-> <<>>]
    /\ started = 0
    /\ peak = 0
    /\ headroom = None
    /\ NothingElse

NextStats ==
    \/ \E ts \in Stamps : RecordUsage(PA, <<"a1">>, <<1, 1>>, TRUE, ts)
    \/ \E pm \in { <<PA, <<"a2">>>>, <<PB, <<"a1">>>> } :
          RecordUsage(pm[1], pm[2], <<2, 2>>, TRUE, None)
    \/ GetUsageStats(PA, <<"a1">>)
    \/ Tick

SpecStats == InitStats /\ [][NextStats]_vars

(***************************************************************************)
(* Properties                                                              *)
(***************************************************************************)
Events(r, kind) == { i \in 1..Len(trace[r]) : trace[r][i].kind = kind }
Chats(r) == Events(r, "chat")
ChatsOn(r, provider) == { i \in Chats(r) : trace[r][i].provider = provider }
LaterChats(r, i) == { j \in Chats(r) : j > i }
EarlierChatsOn(r, i) == { j \in ChatsOn(r, trace[r][i].provider) : j < i }
FailedWith(ev, statuses) ==
    /\ ev.kind = "chat"
    /\ ~ev.outcome.ok
    /\ ev.outcome.exc.status_code \in statuses
Done(r) == pc[r] \in {"returned", "raised"}
IsNoCapable(r) ==
    /\ pc[r] = "raised"
    /\ Val(result[r]).raised
    /\ Val(result[r]).value.cls = "NoCapableProviderError"

NoRetryStatuses == { Some(400), Some(401), Some(403), Some(404) }
RateLimited == { Some(429) }
\* the statuses the upstream alphabet draws that are in neither set above
SwitchStatuses == { Some(500), Some(502), Some(503), Some(504), None }

\* C1: with a budget manager configured, every adapter.chat call of a route
\* call is followed by exactly one record_usage call for the same provider and
\* model, success=true with the response's prompt/completion counts after a
\* success and success=false with zero tokens after a failure; no other
\* record_usage call is made, so rows submitted = chat calls made.
C1_OneRowPerChat ==
    \A r \in Routes :
        ~IsNone(budget) =>
            /\ Cardinality(Events(r, "record")) = Cardinality(Chats(r))
            /\ \A i \in Chats(r) :
                  /\ i + 1 \in Events(r, "record")
                  /\ LET ev == trace[r][i]
                         doc == trace[r][i + 1].doc
                     IN  /\ doc.provider = ev.provider
                         /\ doc.model = ev.model
                         /\ doc.success = ev.outcome.ok
                         /\ IF ev.outcome.ok
                            THEN /\ doc.request_tokens = ev.outcome.usage.prompt_tokens
                                 /\ doc.response_tokens = ev.outcome.usage.completion_tokens
                            ELSE /\ doc.request_tokens = 0
                                 /\ doc.response_tokens = 0

C1_Witness ==
    /\ ~IsNone(budget)
    /\ Done(1)
    /\ \E i, j \in Chats(1) : trace[1][i].outcome.ok /\ ~trace[1][j].outcome.ok
    /\ Cardinality(Events(1, "record")) >= 3

\* C2: a route call makes at most 2 chat calls to any one candidate; after a
\* second consecutive 429 on a candidate no further call goes to it: the
\* route is at the next candidate, or has failed with NoCapableProvider when
\* it was the last one.
C2_AtMostTwoAttempts ==
    \A r \in Routes :
        /\ \A i \in Chats(r) : Cardinality(ChatsOn(r, trace[r][i].provider)) <= 2
        /\ \A i \in Chats(r) :
              ( /\ FailedWith(trace[r][i], RateLimited)
                /\ \E j \in EarlierChatsOn(r, i) : FailedWith(trace[r][j], RateLimited) )
              => /\ \A j \in LaterChats(r, i) : trace[r][j].provider # trace[r][i].provider
                 /\ LaterChats(r, i) = {} =>
                       \/ /\ pc[r] = "attempt"
                          /\ attempt[r] = 0
                          /\ queue[r][qi[r]].provider # trace[r][i].provider
                       \/ /\ IsNoCapable(r)
                          /\ qi[r] = Len(queue[r])

C2_Witness ==
    /\ IsNoCapable(1)
    /\ Len(queue[1]) = 1
    /\ Cardinality(Chats(1)) = 2
    /\ \A i \in Chats(1) : FailedWith(trace[1][i], RateLimited)

\* the delay of the first backoff: Retry-After when it is an integer, else 1s
FirstBackoff(exc) ==
    IF Truthy(exc.retry_after) /\ ~IsNone(PyInt(Val(exc.retry_after)))
    THEN Val(PyInt(Val(exc.retry_after)))
    ELSE 1

RowsAfterChat == IF IsNone(budget) THEN 0 ELSE 1

\* C3: when a candidate's first attempt fails with 429 the router records the
\* failed row (when a budget manager is set), sleeps backoff(1, retry_after),
\* and its next chat call, if any, is the second attempt on the same provider;
\* when that attempt succeeds the route returns its response.
C3_RetrySameAfter429 ==
    \A r \in Routes : \A i \in Chats(r) :
        ( FailedWith(trace[r][i], RateLimited) /\ EarlierChatsOn(r, i) = {} ) =>
            LET s == i + RowsAfterChat + 1
            IN  /\ ~IsNone(budget) =>
                      /\ trace[r][i + 1].kind = "record"
                      /\ ~trace[r][i + 1].doc.success
                /\ s <= Len(trace[r])
                /\ trace[r][s].kind = "sleep"
                /\ trace[r][s].delay = FirstBackoff(trace[r][i].outcome.exc)
                /\ Len(trace[r]) = s => pc[r] \in {"sleeping", "attempt"}
                /\ Len(trace[r]) > s =>
                      /\ trace[r][s + 1].kind = "chat"
                      /\ trace[r][s + 1].provider = trace[r][i].provider
                      /\ trace[r][s + 1].model = trace[r][i].model
                      /\ ( trace[r][s + 1].outcome.ok /\ Len(trace[r]) = s + 1 + RowsAfterChat ) =>
                            /\ pc[r] = "returned"
                            /\ ~Val(result[r]).raised
                            /\ Val(result[r]).value.content = trace[r][s + 1].outcome.content
                            /\ Val(result[r]).value.usage = trace[r][s + 1].outcome.usage

C3_Witness ==
    /\ pc[1] = "returned"
    /\ Cardinality(Chats(1)) = 2
    /\ \E i \in Chats(1) :
          /\ FailedWith(trace[1][i], RateLimited)
          /\ trace[1][i].outcome.exc.retry_after = Some(<<"5">>)
    /\ \E i \in Events(1, "sleep") : trace[1][i].delay = 5
    /\ ~IsNone(budget)

\* position in the queue of the candidate a chat call went to
QueuePos(r, i) == CHOOSE k \in 1..Len(queue[r]) : queue[r][k].provider = trace[r][i].provider

\* the failed attempt at i was classified switch_provider
Switched(ev) ==
    /\ ev.kind = "chat"
    /\ ~ev.outcome.ok
    /\ ev.outcome.exc.status_code \notin (RateLimited \cup NoRetryStatuses)

\* after the failed attempt at i the route left the candidate without sleeping
\* and went on to the next candidate of the queue (or failed when none is left)
MovedOn(r, i) ==
    LET after == i + RowsAfterChat
        k == QueuePos(r, i)
    IN  /\ \A j \in LaterChats(r, i) : trace[r][j].provider # trace[r][i].provider
        /\ Len(trace[r]) > after =>
              /\ trace[r][after + 1].kind = "chat"
              /\ k < Len(queue[r])
              /\ trace[r][after + 1].provider = queue[r][k + 1].provider
              /\ trace[r][after + 1].model = queue[r][k + 1].model
        /\ Len(trace[r]) = after =>
              IF k < Len(queue[r])
              THEN pc[r] = "attempt" /\ qi[r] = k + 1 /\ attempt[r] = 0
              ELSE IsNoCapable(r)

\* C4 as stated: after an attempt that fails with 502, 503, 504, any status
\* outside {429, 400, 401, 403, 404} or no status, the route moves on without
\* sleeping, and the failed candidate has received exactly one chat call.
C4_SwitchExactlyOneCall ==
    \A r \in Routes : \A i \in Chats(r) :
        Switched(trace[r][i]) =>
            /\ MovedOn(r, i)
            /\ Cardinality(ChatsOn(r, trace[r][i].provider)) = 1

\* C4 amended: the same, the failed candidate having received exactly one chat
\* call when the failed attempt was its first and exactly two when it was the
\* retry after a 429.
C4_SwitchWithoutSleep ==
    \A r \in Routes : \A i \in Chats(r) :
        Switched(trace[r][i]) =>
            /\ MovedOn(r, i)
            /\ IF EarlierChatsOn(r, i) = {}
               THEN Cardinality(ChatsOn(r, trace[r][i].provider)) = 1
               ELSE /\ Cardinality(ChatsOn(r, trace[r][i].provider)) = 2
                    /\ \A j \in EarlierChatsOn(r, i) : FailedWith(trace[r][j], RateLimited)

C4_Witness ==
    /\ pc[1] = "returned"
    /\ Cardinality(Chats(1)) = 4
    /\ \E i, j, k \in Chats(1) :
          /\ i < j /\ j < k
          /\ FailedWith(trace[1][i], {None}) /\ EarlierChatsOn(1, i) = {}
          /\ FailedWith(trace[1][j], RateLimited)
          /\ FailedWith(trace[1][k], {Some(502), Some(503), Some(504)})
          /\ trace[1][j].provider = trace[1][k].provider
    /\ Events(1, "sleep") # {}

\* C5: an attempt that fails with 400, 401, 403 or 404 is the last chat call
\* of the route: one failed usage row is recorded for it (when a budget
\* manager is set), nothing else follows, and the route raises that very error.
C5_NoRetryReraised ==
    \A r \in Routes : \A i \in Chats(r) :
        FailedWith(trace[r][i], NoRetryStatuses) =>
            /\ LaterChats(r, i) = {}
            /\ Len(trace[r]) = i + RowsAfterChat
            /\ ~IsNone(budget) =>
                  /\ trace[r][i + 1].kind = "record"
                  /\ ~trace[r][i + 1].doc.success
            /\ pc[r] = "raised"
            /\ result[r] = Raised(trace[r][i].outcome.exc)

C5_Witness ==
    /\ pc[1] = "raised"
    /\ Len(queue[1]) = 3
    /\ qi[1] = 1
    /\ \E i \in Chats(1) : FailedWith(trace[1][i], {Some(403)})
    /\ ~IsNone(budget)

\* every candidate of the queue has been tried and left
AllAbandoned(r) ==
    /\ queue[r] # <<>>
    /\ \A k \in 1..Len(queue[r]) :
          LET on == ChatsOn(r, queue[r][k].provider)
          IN  /\ on # {}
              /\ \A i \in on :
                    /\ ~trace[r][i].outcome.ok
                    /\ trace[r][i].outcome.exc.status_code \notin NoRetryStatuses
              /\ \/ Cardinality(on) = 2
                 \/ \E i \in on : Switched(trace[r][i])

\* C6: when every candidate has been abandoned the route fails with
\* NoCapableProvider, and a route that fails raises either NoCapableProvider
\* or the no_retry error of its last chat call.
C6_ExhaustedIsNoCapable ==
    \A r \in Routes :
        /\ AllAbandoned(r) => IsNoCapable(r)
        /\ pc[r] = "raised" =>
              \/ IsNoCapable(r)
              \/ \E i \in Chats(r) :
                    /\ LaterChats(r, i) = {}
                    /\ FailedWith(trace[r][i], NoRetryStatuses)
                    /\ result[r] = Raised(trace[r][i].outcome.exc)

C6_Witness ==
    /\ IsNoCapable(1)
    /\ AllAbandoned(1)
    /\ Len(queue[1]) = 3
    /\ Cardinality(Chats(1)) = 4
    /\ \E i \in Chats(1) : FailedWith(trace[1][i], {Some(500)})

\* the rows of a pair at or after an instant, counted from the collection
RowsSince(col, provider, model, start) ==
    { i \in 1..Len(col) :
        col[i].provider = provider /\ col[i].model = model /\ col[i].ts >= start }

RECURSIVE TokensOf(_, _)
TokensOf(col, rows) ==
    IF rows = {} THEN 0
    ELSE LET i == CHOOSE i \in rows : TRUE
         IN  col[i].total_tokens + TokensOf(col, rows \ {i})

\* the caps of the limits entry a direct check_headroom call was made against
EntryCaps(h) == Val(budget)[h.provider][h.model]

Used(h, k) ==
    LET minute == RowsSince(h.col, h.provider, h.model, h.clock - MinuteSeconds)
        day == RowsSince(h.col, h.provider, h.model, h.clock - DaySeconds)
    IN  CASE k = "rpm" -> Cardinality(minute)
          [] k = "rpd" -> Cardinality(day)
          [] k = "tpm" -> TokensOf(h.col, minute)
          [] k = "tpd" -> TokensOf(h.col, day)

CapHolds(h, k) ==
    LET cap == EntryCaps(h)[k]
        est_total == OrZero(h.est_prompt_tokens) + OrZero(h.est_completion_tokens)
    IN  \/ IsNone(cap)
        \/ IF k \in {"rpm", "rpd"} THEN Used(h, k) < Val(cap)
           ELSE Used(h, k) + est_total <= Val(cap)

\* C7 as stated: for every limits entry with caps null or >= 0, every usage
\* state and every estimate, can_proceed is true exactly when every non-null
\* cap's predicate holds.
C7_CanProceedIffCapsHold ==
    ~IsNone(headroom) =>
        ( Val(headroom).result.can_proceed <=> \A k \in CapKeys : CapHolds(Val(headroom), k) )

\* C8 as stated: each remaining value is null exactly when its cap is null and
\* otherwise max(0, cap - window usage), never negative.
C8_RemainingPerCap ==
    ~IsNone(headroom) =>
        \A k \in CapKeys :
            LET cap == EntryCaps(Val(headroom))[k]
                left == Val(headroom).result.remaining[k]
            IN  /\ IsNone(left) <=> IsNone(cap)
                /\ ~IsNone(cap) =>
                      /\ ~IsNone(left)
                      /\ Val(left) = Max2(0, Val(cap) - Used(Val(headroom), k))
                      /\ Val(left) >= 0

\* usage rows of the capped pair inside the window of a request cap, now
RowsInWindow(k) ==
    Cardinality(RowsSince(usage_logs, PA, <<"a1">>,
                          now - (IF k = "rpm" THEN MinuteSeconds ELSE DaySeconds)))

ConfiguredCap(k) == _get_limits(Val(budget), PA, <<"a1">>)[k]

C10_CallerRequestUnchanged ==
    \A r \in Routes :
        Done(r) =>
            /\ request[r].model = entry[r].model
            /\ request[r].stream = entry[r].stream

\* the descriptor a registered provider advertises under a model name
DescriptorOf(provider, model) ==
    LET a == CHOOSE a \in { registry[i] : i \in 1..Len(registry) } : a.name = provider
        j == CHOOSE j \in 1..Len(a.models) : DictGet(a.models[j], "name", <<>>) = model
    IN  a.models[j]

\* the descriptor carries the flag and the flag is true
Advertises(m, flag) == flag \in DOMAIN m /\ m[flag]

\* the model field names the descriptor: no hint, or the hinted provider
\* and model name
HintAllows(model_field, provider, m) ==
    LET hint == _parse_model_hint(model_field)
    IN  /\ ~Truthy(hint.provider) \/ Val(hint.provider) = provider
        /\ ~Truthy(hint.model) \/ Val(hint.model) = DictGet(m, "name", <<>>)

\* the registered models a body may be served by that advertise streaming
StreamingChoices(body) ==
    { ij \in (1..Len(registry)) \X (1..4) :
        /\ ij[2] <= Len(registry[ij[1]].models)
        /\ HintAllows(body.model, registry[ij[1]].name, registry[ij[1]].models[ij[2]])
        /\ Advertises(registry[ij[1]].models[ij[2]], "supports_stream") }

\* C11 as stated: a request posted with stream=true to /v1/chat/completions
\* is only dispatched to models whose supports_stream flag is true, and is
\* answered 503 when no such model exists.
C11_StreamOnlyToStreamingModel ==
    \A r \in Routes :
        ( ~IsNone(posted[r]) /\ Val(posted[r]).stream ) =>
            /\ \A i \in Chats(r) :
                  Advertises(DescriptorOf(trace[r][i].provider, trace[r][i].model),
                             "supports_stream")
            /\ ( ~IsNone(http_status[r]) /\ StreamingChoices(Val(posted[r])) = {} ) =>
                  Val(http_status[r]) = 503

\* C12: every model a route call makes a chat call to advertises
\* supports_json when the request handed to route has json true or
\* response_format.type json_object, supports_tools when its tools are
\* non-null (an empty list included), and supports_stream when its stream is
\* true; a flag the descriptor leaves out counts as false.
C12_ChatOnlyOnCapableModels ==
    \A r \in Routes : \A i \in Chats(r) :
        LET m == DescriptorOf(trace[r][i].provider, trace[r][i].model)
        IN  /\ ( entry[r].json \/ entry[r].response_format = "json_object" ) =>
                  Advertises(m, "supports_json")
            /\ ~IsNone(entry[r].tools) => Advertises(m, "supports_tools")
            /\ entry[r].stream => Advertises(m, "supports_stream")

C12_Witness ==
    /\ registry = RegistryFour
    /\ entry[1].json /\ entry[1].tools = Some(<<>>) /\ entry[1].stream
    /\ pc[1] = "returned"
    /\ \E i \in Chats(1) :
          /\ trace[1][i].provider = PC
          /\ trace[1][i].model = <<"c2">>
          /\ trace[1][i].outcome.ok

\* a registered descriptor is a model meeting the request's hint and
\* capability requirements
Qualifies(rq, provider, m) ==
    /\ DictGet(m, "name", <<>>) # <<>>
    /\ HintAllows(rq.model, provider, m)
    /\ ( rq.json \/ rq.response_format = "json_object" ) => Advertises(m, "supports_json")
    /\ ~IsNone(rq.tools) => Advertises(m, "supports_tools")
    /\ rq.stream => Advertises(m, "supports_stream")

QualifyingModels(rq, a) ==
    { j \in 1..Len(registry[a].models) :
        Qualifies(rq, registry[a].name, registry[a].models[j]) }

QualifyingProviders(rq) == { a \in 1..Len(registry) : QualifyingModels(rq, a) # {} }

Least(S) == CHOOSE x \in S : \A y \in S : x <= y

\* the usage store as it was when the route call was entered
LogsAtEntry(r) == SubSeq(usage_logs, 1, Len(usage_logs) - Cardinality(Events(r, "record")))

\* every qualifying model had headroom when the route call was entered (no
\* failure has happened, so the clock has not moved since)
HeadroomAvailable(r) ==
    \/ IsNone(budget)
    \/ \A a \in 1..Len(registry) : \A j \in QualifyingModels(entry[r], a) :
          check_headroom(Val(budget), LogsAtEntry(r), now, registry[a].name,
                         registry[a].models[j].name,
                         Some(_estimate_prompt_tokens(entry[r])),
                         Some(_estimate_completion_tokens(entry[r]))).can_proceed

\* every models() and chat() call the route has made succeeded
AllCallsSucceeded(r) ==
    /\ \A i \in Events(r, "models") : ~trace[r][i].raised
    /\ \A i \in Chats(r) : trace[r][i].outcome.ok

\* C13: with headroom available and every adapter call succeeding, a route
\* call for which some provider offers a qualifying model returns, after
\* exactly one chat call, the response of the first provider in registry
\* order that offers a qualifying model, called with that provider's first
\* qualifying model.
C13_FirstFit ==
    \A r \in Routes :
        ( /\ Done(r)
          /\ AllCallsSucceeded(r)
          /\ HeadroomAvailable(r)
          /\ QualifyingProviders(entry[r]) # {} ) =>
            LET a == Least(QualifyingProviders(entry[r]))
                j == Least(QualifyingModels(entry[r], a))
            IN  /\ pc[r] = "returned"
                /\ Cardinality(Chats(r)) = 1
                /\ \A i \in Chats(r) :
                      /\ trace[r][i].provider = registry[a].name
                      /\ trace[r][i].model = registry[a].models[j].name
                      /\ Val(result[r]).value.content = trace[r][i].outcome.content
                      /\ Val(result[r]).value.usage = trace[r][i].outcome.usage
                      /\ Val(result[r]).value.model = registry[a].models[j].name

C13_Witness ==
    /\ registry = RegistrySparse
    /\ entry[1].model = StrAuto /\ entry[1].json /\ IsNone(entry[1].tools)
    /\ pc[1] = "returned"
    /\ Cardinality(Chats(1)) = 1
    /\ \E i \in Chats(1) : trace[1][i].provider = PA /\ trace[1][i].model = <<"a2">>
    /\ ~IsNone(budget)
    /\ HeadroomAvailable(1)

\* positions of the candidate list that are the first emission of their provider
FirstEmissions(c) ==
    { i \in 1..Len(c) : \A j \in 1..(i - 1) : c[j].provider # c[i].provider }

\* providers that have received a chat call of the route
ProvidersCalled(r) == { trace[r][i].provider : i \in Chats(r) }

\* C14: the queue of a route call has at most 3 entries, their provider names
\* are pairwise distinct, its k-th entry is the k-th first emission of the
\* candidate list, and at most 3 providers, all of the queue, receive chat
\* calls.
C14_QueueAtMostThreeDistinct ==
    \A r \in Routes :
        /\ Len(queue[r]) <= 3
        /\ \A k, l \in 1..Len(queue[r]) : k # l => queue[r][k].provider # queue[r][l].provider
        /\ pc[r] \notin {"idle", "start"} =>
              /\ Len(queue[r]) = Min2(3, Cardinality(FirstEmissions(candidates[r])))
              /\ \A k \in 1..Len(queue[r]) :
                    \E i \in FirstEmissions(candidates[r]) :
                        /\ queue[r][k] = candidates[r][i]
                        /\ Cardinality({ j \in FirstEmissions(candidates[r]) : j < i }) = k - 1
        /\ Cardinality(ProvidersCalled(r)) <= 3
        /\ ProvidersCalled(r) \subseteq { queue[r][k].provider : k \in 1..Len(queue[r]) }

C14_Witness ==
    /\ Cardinality(FirstEmissions(candidates[1])) = 4
    /\ Len(candidates[1]) = 6
    /\ Len(queue[1]) = 3
    /\ Cardinality(ProvidersCalled(1)) = 3
    /\ IsNoCapable(1)

\* the model field reads "<provider>:<model>" with a non-empty provider part
ProviderHinted(model_field) ==
    /\ Len(model_field) >= 2
    /\ model_field[1] # ":"
    /\ model_field[2] = ":"

ProviderPart(model_field) == << model_field[1] >>
ModelPart(model_field) == SubSeq(model_field, 3, Len(model_field))

\* every models() and chat() call of the route went to the hinted provider
OnlyHintedCalled(r) ==
    \A i \in Events(r, "models") \cup Chats(r) :
        trace[r][i].provider = ProviderPart(entry[r].model)

\* C15 as stated: with a model field "<provider>:<model>" whose provider part
\* is non-empty, only the hinted adapter has models() and chat() called, and
\* every chat call names the model <model>.
C15_OnlyHintedProviderAndModel ==
    \A r \in Routes :
        ProviderHinted(entry[r].model) =>
            /\ OnlyHintedCalled(r)
            /\ \A i \in Chats(r) : trace[r][i].model = ModelPart(entry[r].model)

\* C15 amended: the same, every chat call naming <model> when the model part
\* is non-empty; when the model part is empty ("<provider>:") every chat call
\* names a model of the hinted provider that meets the capability
\* requirements.
C15_OnlyHintedProvider ==
    \A r \in Routes :
        ProviderHinted(entry[r].model) =>
            /\ OnlyHintedCalled(r)
            /\ \A i \in Chats(r) :
                  IF ModelPart(entry[r].model) # <<>>
                  THEN trace[r][i].model = ModelPart(entry[r].model)
                  ELSE \E a \in QualifyingProviders(entry[r]) :
                          /\ registry[a].name = ProviderPart(entry[r].model)
                          /\ \E j \in QualifyingModels(entry[r], a) :
                                trace[r][i].model = registry[a].models[j].name

C15_Witness ==
    /\ registry = RegistryFour
    /\ entry[1].model = <<"A", ":", "a2">>
    /\ IsNoCapable(1)
    /\ Cardinality(Chats(1)) = 2
    /\ \A i \in Chats(1) : trace[1][i].provider = PA /\ trace[1][i].model = <<"a2">>
    /\ Cardinality(Events(1, "models")) = 1

\* the step appends one usage row with non-negative token counts and leaves
\* the limits and the clock as they are
InsertsRow ==
    /\ Len(usage_logs') = Len(usage_logs) + 1
    /\ usage_logs' = Append(usage_logs, usage_logs'[Len(usage_logs')])
    /\ usage_logs'[Len(usage_logs')].request_tokens >= 0
    /\ usage_logs'[Len(usage_logs')].response_tokens >= 0
    /\ budget' = budget
    /\ now' = now

\* a remaining value has not gone up: null stays null, a number has not grown
NotIncreased(before, after) ==
    IF IsNone(before) THEN IsNone(after)
    ELSE ~IsNone(after) /\ Val(after) <= Val(before)

\* C16: with the limits and the query instant fixed, inserting one more usage
\* row for a provider/model increases no remaining value check_headroom
\* returns for that pair and never turns can_proceed from false to true,
\* whatever the estimates.
C16_RowNeverAddsHeadroom ==
    [][ ( InsertsRow /\ ~IsNone(budget) ) =>
            LET row == usage_logs'[Len(usage_logs')]
            IN  \A ep, ec \in HeadroomEstimates :
                    LET before == check_headroom(Val(budget), usage_logs, now,
                                                 row.provider, row.model, ep, ec)
                        after == check_headroom(Val(budget), usage_logs', now,
                                                row.provider, row.model, ep, ec)
                    IN  /\ \A k \in CapKeys :
                              NotIncreased(before.remaining[k], after.remaining[k])
                        /\ ~before.can_proceed => ~after.can_proceed ]_vars

\* a row has been inserted that used up the pair's headroom
C16_Witness ==
    /\ ~IsNone(budget)
    /\ usage_logs # <<>>
    /\ LET row == usage_logs[Len(usage_logs)]
           before == check_headroom(Val(budget), SubSeq(usage_logs, 1, Len(usage_logs) - 1),
                                    now, row.provider, row.model, None, None)
           after == check_headroom(Val(budget), usage_logs, now, row.provider, row.model,
                                   None, None)
       IN  /\ before.can_proceed /\ ~after.can_proceed
           /\ \E k \in CapKeys :
                 /\ ~IsNone(before.remaining[k])
                 /\ Val(after.remaining[k]) < Val(before.remaining[k])

\* the rows of a pair that are at most a window's length old at an instant
RowsAgedWithin(col, provider, model, clock, window) ==
    { i \in 1..Len(col) :
        /\ col[i].provider = provider
        /\ col[i].model = model
        /\ clock - col[i].ts <= window }

\* C17: get_usage_stats(provider, model) returns, for the minute and for the
\* day, the number and the total_tokens sum of exactly the rows of that pair
\* written at most 60 s, respectively 24 h, before the query instant: a row
\* exactly that old is counted, a row one second older is not.
C17_RollingWindows ==
    ~IsNone(stats) =>
        LET h == Val(stats)
            minute == RowsAgedWithin(h.col, h.provider, h.model, h.clock, 60)
            day == RowsAgedWithin(h.col, h.provider, h.model, h.clock, 24 * 60 * 60)
        IN  /\ h.result.minute.requests = Cardinality(minute)
            /\ h.result.minute.tokens = TokensOf(h.col, minute)
            /\ h.result.day.requests = Cardinality(day)
            /\ h.result.day.tokens = TokensOf(h.col, day)

\* a query over a row exactly on the minute boundary and a row one second
\* older: the first counts in both windows, the second in the day only
C17_Witness ==
    /\ ~IsNone(stats)
    /\ LET h == Val(stats)
       IN  /\ \E i \in 1..Len(h.col) :
                 /\ h.col[i].provider = h.provider /\ h.col[i].model = h.model
                 /\ h.col[i].ts = h.clock - 60
           /\ \E i \in 1..Len(h.col) :
                 /\ h.col[i].provider = h.provider /\ h.col[i].model = h.model
                 /\ h.col[i].ts = h.clock - 61
           /\ h.result.minute.requests = 1
           /\ h.result.day.requests = 2

\* the caps of a limits entry, a cap the entry leaves out being null
CapsOf(e) == [k \in CapKeys |-> IF k \in DOMAIN e THEN e[k] ELSE None]

\* the entry the limits table holds for a pair: the model's own entry when
\* the provider has one, else the provider's "default" entry, else no caps
EntryFor(limits, provider, model) ==
    IF provider \notin DOMAIN limits THEN NoCaps
    ELSE IF model \in DOMAIN limits[provider] THEN CapsOf(limits[provider][model])
    ELSE IF DefaultKey \in DOMAIN limits[provider] THEN CapsOf(limits[provider][DefaultKey])
    ELSE NoCaps

\* C18 as stated: check_headroom decides by the caps of the model's own
\* entry whenever the limits table has one, an entry setting no caps
\* included, by the provider's "default" entry only when the model has no
\* entry, and by all-null caps when neither exists.
C18_OwnEntryBeforeDefault ==
    ~IsNone(headroom) =>
        LET h == Val(headroom)
        IN  h.result =
                check_headroom_caps(EntryFor(Val(budget), h.provider, h.model),
                                    get_usage_stats(h.col, h.clock, h.provider, h.model),
                                    h.est_prompt_tokens, h.est_completion_tokens)

\* the last chat call of a route, when it has made one
LastChat(r) == CHOOSE i \in Chats(r) : \A j \in Chats(r) : j <= i

\* C19 as stated: a route cancelled while a chat call is in flight or during
\* the backoff sleep starts no further attempt, and a usage row for its
\* last-attempted call has been submitted to the budget manager.
C19_CancelledCallStillRecorded ==
    \A r \in Routes :
        ( pc[r] = "cancelled" /\ ~IsNone(budget) ) =>
            /\ Chats(r) # {}
            /\ LET i == LastChat(r)
               IN  /\ i < Len(trace[r])
                   /\ trace[r][i + 1].kind = "record"
                   /\ trace[r][i + 1].doc.provider = trace[r][i].provider
                   /\ trace[r][i + 1].doc.model = trace[r][i].model
                   /\ \A j \in (i + 2)..Len(trace[r]) : trace[r][j].kind = "sleep"

\* the status code of the last upstream error a route has observed
LastStatus(r) == Val(last_error[r]).status_code

\* C20 as stated: when every candidate has been exhausted by failover-class
\* errors, the status answered to the client of POST /v1/chat/completions is
\* the status code of the last upstream error observed.
C20_LastStatusSurfaced ==
    \A r \in Routes :
        ( /\ ~IsNone(posted[r])
          /\ ~IsNone(http_status[r])
          /\ AllAbandoned(r)
          /\ ~IsNone(LastStatus(r)) ) =>
            Val(http_status[r]) = Val(LastStatus(r))


(***************************************************************************)
(* Direct calls of the helpers of src/router/retry.py and of               *)
(* Router._parse_model_hint                                                *)
(***************************************************************************)
MaxAttemptNo == 4
MaxFieldLen == 5

\* an exception as the helpers see it: an own status_code attribute (None when
\* absent or not an int), an own retry_after attribute, an embedded response
ExcWith(status_code, retry_after, response) ==
    [cls |-> "Exception", status_code |-> status_code, retry_after |-> retry_after,
     response |-> response]

Response(status_code, headers) == [status_code |-> status_code, headers |-> headers]

NoHeaders == [k \in {} |-> <<>>]
RetryAfterHeader(v) == [k \in {"Retry-After"} |-> v]

ErrStatuses == {400, 401, 403, 404, 418, 429, 500, 502, 503, 504}
OptStatuses == {None} \cup { Some(s) : s \in ErrStatuses }

Errors ==
    { ExcWith(sc, ra, resp) :
        sc \in OptStatuses,
        ra \in {None, Some(<<"5">>)},
        resp \in {None} \cup { Some(Response(rs, h)) :
                                 rs \in OptStatuses,
                                 h \in {NoHeaders, RetryAfterHeader(<<"7">>)} } }

RetryAfters ==
    {None, Some(<<>>), Some(<<"0">>), Some(<<"5">>), Some(<<"1", "2">>), Some(<<"-", "3">>),
     Some(<<"+", "7">>), Some(<<"1", ".", "5">>), Some(<<"W", "e", "d">>)}

HintChunks == {"auto", "A", "a1"}

\* the strings of at most n symbols; two chunks never touch, a chunk being a
\* maximal run without a colon
FieldsUpTo(n) ==
    UNION { { s \in [1..k -> HintChunks \cup {":"}] :
                \A i \in 1..(k - 1) : s[i] = ":" \/ s[i + 1] = ":" } : k \in 0..n }

Classify(exc) ==
    /\ call' = Some([fn |-> "is_retryable", exc |-> exc, result |-> is_retryable(exc)])
    /\ UNCHANGED << registry, budget, usage_logs, now, request, entry, pc, queue, qi, req,
                    attempt, wake, last_error, result, trace, started, peak, headroom,
                    candidates, posted, http_status, stats >>

Backoff(n, retry_after_header) ==
    /\ call' = Some([fn |-> "calculate_backoff", attempt |-> n,
                     retry_after_header |-> retry_after_header,
                     result |-> calculate_backoff(n, retry_after_header)])
    /\ UNCHANGED << registry, budget, usage_logs, now, request, entry, pc, queue, qi, req,
                    attempt, wake, last_error, result, trace, started, peak, headroom,
                    candidates, posted, http_status, stats >>

ParseHint(model_field) ==
    /\ call' = Some([fn |-> "_parse_model_hint", model_field |-> model_field,
                     result |-> _parse_model_hint(model_field)])
    /\ UNCHANGED << registry, budget, usage_logs, now, request, entry, pc, queue, qi, req,
                    attempt, wake, last_error, result, trace, started, peak, headroom,
                    candidates, posted, http_status, stats >>

InitHelpers ==
    /\ registry = RegistryOne
    /\ budget = None
    /\ usage_logs = <<>>
    /\ now = StartClock
    /\ \E rq \in RequestsConc :
          /\ request = [r \in Routes |-> rq]
          /\ entry = [r \in Routes |-> rq]
          /\ req = [r \in Routes |-> rq]
    /\ pc = [r \in Routes |-> "idle"]
    /\ queue = [r \in Routes |-> <<>>]
    /\ qi = [r \in Routes |-> 0]
    /\ attempt = [r \in Routes |-> 0]
    /\ wake = [r \in Routes |-> 0]
    /\ last_error = [r \in Routes |-> None]
    /\ result = [r \in Routes |-> None]
    /\ trace = [r \in Routes |-> <<>>]
    /\ started = 0
    /\ peak = 0
    /\ headroom = None
    /\ NothingElse

NextHelpers ==
    \/ \E exc \in Errors : Classify(exc)
    \/ \E n \in 1..MaxAttemptNo : \E ra \in RetryAfters : Backoff(n, ra)
    \/ \E s \in FieldsUpTo(MaxFieldLen) : ParseHint(s)

SpecHelpers == InitHelpers /\ [][NextHelpers]_vars

(***************************************************************************)
(* Properties of the helpers                                               *)
(***************************************************************************)
CallOf(fn) == ~IsNone(call) /\ Val(call).fn = fn

\* the status the classification is specified to use
StatusUsed(exc) ==
    IF ~IsNone(exc.status_code) THEN exc.status_code
    ELSE IF IsNone(exc.response) THEN None
    ELSE Val(exc.response).status_code

\* C22: is_retryable answers retry_same for status 429, switch_provider for
\* 502, 503 and 504, no_retry for 400, 401, 403 and 404, and switch_provider
\* for every other status and when there is none; the status is the error's
\* own integer status_code when it has one, else the embedded response's.
C22_ClassificationTable ==
    CallOf("is_retryable") =>
        LET exc == Val(call).exc
            got == Val(call).result
            status == StatusUsed(exc)
        IN  /\ got.status_code = status
            /\ status = Some(429) => got.action = "retry_same"
            /\ status \in {Some(502), Some(503), Some(504)} => got.action = "switch_provider"
            /\ status \in {Some(400), Some(401), Some(403), Some(404)} => got.action = "no_retry"
            /\ status \notin {Some(429), Some(400), Some(401), Some(403), Some(404)}
                  => got.action = "switch_provider"

\* an error whose own status (503) and embedded status (404) disagree
C22_Witness ==
    /\ CallOf("is_retryable")
    /\ Val(call).exc.status_code = Some(503)
    /\ ~IsNone(Val(call).exc.response)
    /\ Val(Val(call).exc.response).status_code = Some(404)
    /\ Val(call).result.action = "switch_provider"

\* the value of a string written as an optional sign and decimal digits
IsInteger(s) ==
    \/ AllDigits(s)
    \/ Len(s) >= 2 /\ s[1] \in {"-", "+"} /\ AllDigits(Tail(s))

IntegerOf(s) ==
    IF s[1] = "-" THEN 0 - DigitsVal(Tail(s))
    ELSE IF s[1] = "+" THEN DigitsVal(Tail(s))
    ELSE DigitsVal(s)

\* C23: calculate_backoff(n, retry_after) is the integer value of retry_after
\* when that parses as an integer, and otherwise 1 for attempt 1 and 2 for
\* every later attempt.
C23_BackoffValue ==
    CallOf("calculate_backoff") =>
        LET n == Val(call).attempt
            ra == Val(call).retry_after_header
            got == Val(call).result
        IN  IF ~IsNone(ra) /\ IsInteger(Val(ra)) THEN got = IntegerOf(Val(ra))
            ELSE got = (IF n = 1 THEN 1 ELSE 2)

\* a Retry-After that is not a number, on the third attempt
C23_Witness ==
    /\ CallOf("calculate_backoff")
    /\ Val(call).attempt = 3
    /\ Val(call).retry_after_header = Some(<<"W", "e", "d">>)
    /\ Val(call).result = 2

Colons(s) == { i \in 1..Len(s) : s[i] = ":" }

\* (a, b) with s = a + ":" + b
SplitsAs(s, got) ==
    /\ ~IsNone(got.provider)
    /\ ~IsNone(got.model)
    /\ s = Val(got.provider) \o <<":">> \o Val(got.model)

\* C25 as stated: (none, none) iff s is "" or "auto"; (a, b) iff s is
\* a + ":" + b with exactly one colon; (none, s) for every other s, the
\* strings with two or more colons included.
C25_SplitOnlyOnSingleColon ==
    CallOf("_parse_model_hint") =>
        LET s == Val(call).model_field
            got == Val(call).result
        IN  /\ (got = [provider |-> None, model |-> None]) <=> (s = <<>> \/ s = StrAuto)
            /\ SplitsAs(s, got) <=> Cardinality(Colons(s)) = 1
            /\ (s # <<>> /\ s # StrAuto /\ Cardinality(Colons(s)) # 1)
                  => got = [provider |-> None, model |-> Some(s)]

\* C25 amended: (none, none) iff s is "" or "auto"; (a, b) iff s is
\* a + ":" + b with no colon in a, so a string with several colons is split
\* at its first one; (none, s) for every other s, the strings without a colon.
C25_SplitAtFirstColon ==
    CallOf("_parse_model_hint") =>
        LET s == Val(call).model_field
            got == Val(call).result
        IN  /\ (got = [provider |-> None, model |-> None]) <=> (s = <<>> \/ s = StrAuto)
            /\ (SplitsAs(s, got) /\ Colons(Val(got.provider)) = {}) <=> Colons(s) # {}
            /\ (s # <<>> /\ s # StrAuto /\ Colons(s) = {})
                  => got = [provider |-> None, model |-> Some(s)]

\* "A:a1:a1" is parsed as provider "A" and model "a1:a1"
C25_Witness ==
    /\ CallOf("_parse_model_hint")
    /\ Val(call).model_field = <<"A", ":", "a1", ":", "a1">>
    /\ Val(call).result = [provider |-> Some(<<"A">>), model |-> Some(<<"a1", ":", "a1">>)]

\* the chat call a sleep follows
ChatBefore(r, s) == CHOOSE c \in Chats(r) : c < s /\ \A d \in Chats(r) : d < s => d <= c

\* C24 as stated: every delay the router sleeps between two attempts on the
\* same provider is at least 0 and at most 2 seconds, whatever Retry-After the
\* upstream sent.
C24_DelayAtMostTwo ==
    \A r \in Routes : \A s \in Events(r, "sleep") :
        trace[r][s].delay >= 0 /\ trace[r][s].delay <= 2

\* C24 amended: a delay is at least 0 and at most 2 seconds when the failed
\* attempt carried no Retry-After that parses as an integer, and is that
\* integer number of seconds when it did.
C24_DelayBoundedWithoutRetryAfter ==
    \A r \in Routes : \A s \in Events(r, "sleep") :
        LET ra == trace[r][ChatBefore(r, s)].outcome.exc.retry_after
            delay == trace[r][s].delay
        IN  IF ~IsNone(ra) /\ IsInteger(Val(ra)) THEN delay = IntegerOf(Val(ra))
            ELSE delay >= 0 /\ delay <= 2

\* the router is asleep for the 5 seconds a 429 asked for
C24_Witness ==
    /\ pc[1] = "sleeping"
    /\ wake[1] = now + 5
    /\ \E s \in Events(1, "sleep") :
          /\ trace[1][s].delay = 5
          /\ trace[1][ChatBefore(1, s)].outcome.exc.retry_after = Some(<<"5">>)

(***************************************************************************)
(* src/providers/base_openai.py: BaseOpenAIAdapter.chat, from the upstream's *)
(* answer to what the call returns or raises                               *)
(***************************************************************************)
UpstreamReply(status_code, headers) ==
    [answered |-> TRUE, status_code |-> status_code, headers |-> headers]
UpstreamDown == [answered |-> FALSE, status_code |-> 0, headers |-> NoHeaders]

\* dict(resp.headers): httpx gives the header names in lower case
LowerRetryAfter(v) == [k \in {"retry-after"} |-> v]

\* BaseRateLimitError.__init__: retry_after is headers.get("retry-after") or
\* headers.get("Retry-After")
BaseRateLimitError_TitleOnly(status_code, headers) ==
    [cls |-> "BaseRateLimitError", status_code |-> Some(status_code),
     retry_after |-> HeaderGet(headers, "Retry-After"), response |-> None,
     headers |-> headers]

BaseRateLimitError(status_code, headers) ==
    LET lower == HeaderGet(headers, "retry-after")
        title == HeaderGet(headers, "Retry-After")
    IN  [cls |-> "BaseRateLimitError", status_code |-> Some(status_code),
         retry_after |-> IF Truthy(lower) THEN lower ELSE title, response |-> None,
         headers |-> headers]

\* what resp.raise_for_status() raises: the status is on e.response only
HTTPStatusError(status_code, headers) ==
    [cls |-> "HTTPStatusError", status_code |-> None, retry_after |-> None,
     response |-> Some(Response(Some(status_code), headers))]

OpenAIChat(up) ==
    IF ~up.answered THEN Failed(TransportExc)
    ELSE IF up.status_code = 429
         THEN Failed(BaseRateLimitError(up.status_code, up.headers))
    ELSE IF up.status_code \notin 200..299
         THEN Failed(HTTPStatusError(up.status_code, up.headers))
    ELSE Replied(3, 2)

Upstreams ==
    { UpstreamReply(s, NoHeaders) : s \in {200, 400, 401, 403, 404, 429, 500, 503} }
      \cup { UpstreamReply(429, LowerRetryAfter(<<"5">>)), UpstreamDown }

\* what a chat call of the adapter may return or raise
OutcomesOpenAI == { OpenAIChat(up) : up \in Upstreams }

\* the gateway in front of OpenAI-compatible adapters
NextOpenAI ==
    \/ \E body \in Bodies : ChatCompletions(1, body)
    \/ Enumerate(1)
    \/ \E outcome \in OutcomesOpenAI : Attempt(1, outcome)
    \/ SleepDone(1)
    \/ Respond(1)

SpecOpenAI == InitGateway /\ [][NextOpenAI]_vars

\* C21: when the upstream answers an OpenAI-compatible adapter's chat call
\* with 400, 401, 403 or 404, the router re-raises the adapter's error and the
\* client of POST /v1/chat/completions receives that same status code.
C21_UpstreamClientErrorSurfaced ==
    \A r \in Routes :
        ( /\ ~IsNone(http_status[r])
          /\ Chats(r) # {}
          /\ ~trace[r][LastChat(r)].outcome.ok
          /\ StatusUsed(trace[r][LastChat(r)].outcome.exc) \in
                {Some(400), Some(401), Some(403), Some(404)} )
        => /\ result[r] = Raised(trace[r][LastChat(r)].outcome.exc)
           /\ http_status[r] = StatusUsed(trace[r][LastChat(r)].outcome.exc)

(***************************************************************************)
(* The same route_request call made twice, slot 1 against a store that     *)
(* takes every row and slot 2 against a store whose insert_one fails       *)
(***************************************************************************)
StoreOutcomes ==
    { Replied(3, 2), Failed(HTTPExc(400)), Failed(HTTPExc(503)), Failed(RLExc(None)) }

InitStore ==
    /\ registry = RegistrySparse
    /\ budget = Some(LimitsMain)
    /\ usage_logs = << SeedRow >>
    /\ now = StartClock
    /\ \E rq \in RequestsConc :
          /\ request = [r \in Routes |-> rq]
          /\ entry = [r \in Routes |-> rq]
          /\ req = [r \in Routes |-> rq]
    /\ pc = [r \in Routes |-> IF r \in {1, 2} THEN "start" ELSE "idle"]
    /\ queue = [r \in Routes |-> <<>>]
    /\ qi = [r \in Routes |-> 0]
    /\ attempt = [r \in Routes |-> 0]
    /\ wake = [r \in Routes |-> 0]
    /\ last_error = [r \in Routes |-> None]
    /\ result = [r \in Routes |-> None]
    /\ trace = [r \in Routes |-> <<>>]
    /\ started = 2
    /\ peak = 2
    /\ headroom = None
    /\ NothingElse

NextStore ==
    \/ \E r \in {1, 2} : Enumerate(r)
    \/ \E o \in StoreOutcomes : Attempt(1, o)
    \/ \E o \in StoreOutcomes : AttemptDown(2, o)
    \/ \E r \in {1, 2} : SleepDone(r)

SpecStore == InitStore /\ [][NextStore]_vars

\* what the adapters answered to a route, in call order
RECURSIVE OutcomesOf(_)
OutcomesOf(tr) ==
    IF tr = <<>> THEN <<>>
    ELSE IF Head(tr).kind = "chat" THEN << Head(tr).outcome >> \o OutcomesOf(Tail(tr))
    ELSE OutcomesOf(Tail(tr))

\* the calls a route made, the rows' timestamps left out
RECURSIVE CallsOf(_)
CallsOf(tr) ==
    IF tr = <<>> THEN <<>>
    ELSE << IF Head(tr).kind = "record"
            THEN [Head(tr) EXCEPT !.doc = [@ EXCEPT !.ts = 0]]
            ELSE Head(tr) >> \o CallsOf(Tail(tr))

\* where a route stands: a pending sleep and the attempt after it count alike
RouteOutcome(r) ==
    [pc |-> IF pc[r] = "sleeping" THEN "attempt" ELSE pc[r], qi |-> qi[r],
     attempt |-> attempt[r], req |-> req[r], request |-> request[r],
     last_error |-> last_error[r], result |-> result[r], calls |-> CallsOf(trace[r])]

\* C26: a failing insert never propagates: record_usage returns normally, and
\* the route whose inserts all fail returns, re-raises, retries and fails over
\* exactly as the route whose inserts succeed, given the same adapter answers.
C26_InsertFailureChangesNothing ==
    /\ \A j \in Events(2, "record") :
          /\ insert_one(usage_logs, trace[2][j].doc, FALSE).raised
          /\ ~record_usage(usage_logs, trace[2][j].doc, FALSE).raised
          /\ \A i \in 1..Len(usage_logs) :
                usage_logs[i] = SeedRow \/ usage_logs[i] \in { trace[1][k].doc : k \in Events(1, "record") }
    /\ ( /\ queue[1] = queue[2]
         /\ pc[1] # "start" /\ pc[2] # "start"
         /\ OutcomesOf(trace[1]) = OutcomesOf(trace[2]) )
       => RouteOutcome(1) = RouteOutcome(2)

\* both routes got 429 then a reply and returned; only slot 1's two rows are stored
C26_Witness ==
    /\ pc[1] = "returned" /\ pc[2] = "returned"
    /\ Len(OutcomesOf(trace[2])) = 2
    /\ OutcomesOf(trace[1]) = OutcomesOf(trace[2])
    /\ Cardinality(Events(2, "record")) = 2
    /\ Len(usage_logs) = 3
    /\ result[1] = result[2]


\* C30: every usage row the router writes carries the name of the adapter
\* whose chat was just called and the model name that adapter reported for
\* the candidate, never the client's model field ("auto", "provider:model").
C30_RowsNameAdapterAndModel ==
    \A r \in Routes : \A j \in Events(r, "record") :
        LET doc == trace[r][j].doc
        IN  /\ j > 1
            /\ trace[r][j - 1].kind = "chat"
            /\ doc.provider = trace[r][j - 1].provider
            /\ \E a \in 1..Len(registry) : \E k \in 1..Len(registry[a].models) :
                  /\ registry[a].name = doc.provider
                  /\ DictGet(registry[a].models[k], "name", <<>>) = doc.model
            /\ \E k \in 1..Len(queue[r]) :
                  queue[r][k] = [provider |-> doc.provider, model |-> doc.model]
            /\ ( entry[r].model = StrAuto \/ Colons(entry[r].model) # {} )
                  => doc.model # entry[r].model
            /\ \E i \in 1..Len(usage_logs) : usage_logs[i] = doc

\* a request for "A:a2" failed over nowhere and left a row naming A and a2
C30_Witness ==
    /\ ~IsNone(budget)
    /\ pc[1] = "returned"
    /\ entry[1].model = <<"A", ":", "a2">>
    /\ \E j \in Events(1, "record") :
          /\ trace[1][j].doc.provider = PA
          /\ trace[1][j].doc.model = <<"a2">>
          /\ trace[1][j].doc.success

(***************************************************************************)
(* check_headroom called directly while the aggregation of a window may    *)
(* fail                                                                    *)
(***************************************************************************)
CheckHeadroomWhen(provider, model, est_prompt_tokens, est_completion_tokens, minute_up, day_up) ==
    /\ ~IsNone(budget)
    /\ headroom' = Some([provider |-> provider, model |-> model,
                         est_prompt_tokens |-> est_prompt_tokens,
                         est_completion_tokens |-> est_completion_tokens,
                         col |-> usage_logs, clock |-> now,
                         minute_up |-> minute_up, day_up |-> day_up,
                         stats |-> get_usage_stats_when(usage_logs, now, provider, model,
                                                        minute_up, day_up),
                         result |-> check_headroom_when(Val(budget), usage_logs, now, provider,
                                                        model, est_prompt_tokens,
                                                        est_completion_tokens, minute_up, day_up)])
    /\ UNCHANGED << registry, budget, usage_logs, now, request, entry, pc, queue, qi, req,
                    attempt, wake, last_error, result, trace, started, peak,
                    candidates, posted, http_status, stats, call >>

NextOutage ==
    \/ \E row \in HeadroomRows, ts \in {None, Some(now - MinuteSeconds - 1)} :
          RecordUsage(PA, <<"a1">>, row.tokens, row.success, ts)
    \/ \E ep \in HeadroomEstimates, minute_up \in BOOLEAN, day_up \in BOOLEAN :
          CheckHeadroomWhen(PA, <<"a1">>, ep, Some(1), minute_up, day_up)

SpecOutage == InitLimits /\ [][NextOutage]_vars

NoUsage == [requests |-> 0, tokens |-> 0]

\* the caps the call was checked against, when any cap is set
ActiveCaps(h) ==
    LET caps == _get_limits(Val(budget), h.provider, h.model)
    IN  IF AnyCap(caps) THEN caps ELSE NoCaps

\* C27: when the aggregation of a window fails, get_usage_stats reports zero
\* requests and zero tokens for that window, check_headroom evaluates the
\* caps against that zero usage, and no candidate is refused that would have
\* been let through with the ledger available.
C27_AggregationFailsOpen ==
    ~IsNone(headroom) =>
        LET h == Val(headroom)
            caps == ActiveCaps(h)
            whole == check_headroom(Val(budget), h.col, h.clock, h.provider, h.model,
                                    h.est_prompt_tokens, h.est_completion_tokens)
            empty == check_headroom(Val(budget), <<>>, h.clock, h.provider, h.model,
                                    h.est_prompt_tokens, h.est_completion_tokens)
        IN  /\ ~h.minute_up =>
                  /\ h.stats.minute = NoUsage
                  /\ h.result.remaining["rpm"] = caps["rpm"]
                  /\ h.result.remaining["tpm"] = caps["tpm"]
            /\ ~h.day_up =>
                  /\ h.stats.day = NoUsage
                  /\ h.result.remaining["rpd"] = caps["rpd"]
                  /\ h.result.remaining["tpd"] = caps["tpd"]
            /\ (~h.minute_up /\ ~h.day_up) => h.result = empty
            /\ whole.can_proceed => h.result.can_proceed

\* the minute window holds a row against an rpm cap of 1, the aggregation
\* fails, and the call is let through with the whole cap remaining
C27_Witness ==
    /\ ~IsNone(headroom)
    /\ ~Val(headroom).minute_up
    /\ ~Val(headroom).day_up
    /\ Val(headroom).result.can_proceed
    /\ Val(headroom).result.remaining["rpm"] = Some(1)
    /\ ~check_headroom(Val(budget), Val(headroom).col, Val(headroom).clock, PA, <<"a1">>,
                       Val(headroom).est_prompt_tokens,
                       Val(headroom).est_completion_tokens).can_proceed

(***************************************************************************)
(* record_usage called directly with token arguments that may be None,     *)
(* next to a route call that writes its own rows                           *)
(***************************************************************************)
TokenArgs == {None, Some(0), Some(1), Some(2)}

\* record_usage(provider, model, request_tokens, response_tokens): the row is
\* built with int(x or 0) for each token argument
RecordUsageArgs(provider, model, request_tokens, response_tokens) ==
    /\ ~IsNone(budget)
    /\ Len(usage_logs) < MaxRows
    /\ usage_logs' = record_usage(usage_logs,
                                  UsageDoc(now, provider, model, OrZero(request_tokens),
                                           OrZero(response_tokens), TRUE, None),
                                  TRUE).col
    /\ call' = Some([fn |-> "record_usage", request_tokens |-> request_tokens,
                     response_tokens |-> response_tokens])
    /\ UNCHANGED << registry, budget, now, request, entry, pc, queue, qi, req, attempt,
                    wake, last_error, result, trace, started, peak, headroom,
                    candidates, posted, http_status, stats >>

InitRows ==
    /\ registry = RegistryOne
    /\ budget = Some(LimitsMain)
    /\ usage_logs = <<>>
    /\ now = StartClock
    /\ \E rq \in RequestsConc :
          /\ request = [r \in Routes |-> rq]
          /\ entry = [r \in Routes |-> rq]
          /\ req = [r \in Routes |-> rq]
    /\ pc = [r \in Routes |-> IF r = 1 THEN "start" ELSE "idle"]
    /\ queue = [r \in Routes |-> <<>>]
    /\ qi = [r \in Routes |-> 0]
    /\ attempt = [r \in Routes |-> 0]
    /\ wake = [r \in Routes |-> 0]
    /\ last_error = [r \in Routes |-> None]
    /\ result = [r \in Routes |-> None]
    /\ trace = [r \in Routes |-> <<>>]
    /\ started = 1
    /\ peak = 1
    /\ headroom = None
    /\ NothingElse

NextRows ==
    \/ \E rt \in TokenArgs, rp \in TokenArgs : RecordUsageArgs(PA, <<"a1">>, rt, rp)
    \/ Enumerate(1)
    \/ \E o \in OutcomesConc : Attempt(1, o)
    \/ SleepDone(1)
    \/ Tick

SpecRows == InitRows /\ [][NextRows]_vars

\* int(x or 0)
ZeroIfNull(x) == IF x = None THEN 0 ELSE Val(x)

\* C28: every row record_usage inserts has total_tokens = request_tokens +
\* response_tokens, null and zero token arguments counting as 0, and no row
\* already stored is changed or removed afterwards.
C28_RowsAddUpAndStay ==
    [][ /\ Len(usage_logs') >= Len(usage_logs)
        /\ \A i \in 1..Len(usage_logs) : usage_logs'[i] = usage_logs[i]
        /\ \A i \in (Len(usage_logs) + 1)..Len(usage_logs') :
              usage_logs'[i].total_tokens =
                  usage_logs'[i].request_tokens + usage_logs'[i].response_tokens
        /\ ( call' # call ) =>
              LET row == usage_logs'[Len(usage_logs')]
              IN  /\ Len(usage_logs') = Len(usage_logs) + 1
                  /\ row.request_tokens = ZeroIfNull(Val(call').request_tokens)
                  /\ row.response_tokens = ZeroIfNull(Val(call').response_tokens)
                  /\ row.total_tokens = ZeroIfNull(Val(call').request_tokens)
                                          + ZeroIfNull(Val(call').response_tokens) ]_vars

\* a row built from a null and a non-zero argument, stored after a route's row
C28_Witness ==
    /\ CallOf("record_usage")
    /\ Val(call).request_tokens = None
    /\ Val(call).response_tokens = Some(2)
    /\ Len(usage_logs) = 2
    /\ usage_logs[1].total_tokens = 5
    /\ usage_logs[2].total_tokens = 2

\* the (adapter, model) pairs that pass the hint, the capability flags and,
\* with a budget manager, the headroom check made when the route was entered
Survivors(r) ==
    { am \in (1..Len(registry)) \X (1..4) :
        /\ am[2] <= Len(registry[am[1]].models)
        /\ ~registry[am[1]].models_raises
        /\ Qualifies(entry[r], registry[am[1]].name, registry[am[1]].models[am[2]])
        /\ \/ IsNone(budget)
           \/ check_headroom(Val(budget), LogsAtEntry(r), now, registry[am[1]].name,
                             registry[am[1]].models[am[2]].name,
                             Some(_estimate_prompt_tokens(entry[r])),
                             Some(_estimate_completion_tokens(entry[r]))).can_proceed }

\* C29: when no (adapter, model) pair survives hint, capability and headroom
\* filtering, the route fails with NoCapableProvider, no chat call is made and
\* no usage row is written; the error is the same whether capability or
\* budget caused the shortfall.
C29_NoSurvivorNoCall ==
    \A r \in Routes :
        ( pc[r] \notin {"idle", "start"} /\ Survivors(r) = {} ) =>
            /\ IsNoCapable(r)
            /\ result[r] = Raised(NoCapableProviderError("No capable provider candidates"))
            /\ Chats(r) = {}
            /\ Events(r, "record") = {}
            /\ usage_logs = << SeedRow >>

\* "A:a1" names a model with every capability whose rpm cap is used up
C29_Witness ==
    /\ IsNoCapable(1)
    /\ ~IsNone(budget)
    /\ registry = RegistryFour
    /\ entry[1].model = <<"A", ":", "a1">>
    /\ Qualifies(entry[1], PA, registry[1].models[1])
    /\ Survivors(1) = {}
    /\ Chats(1) = {}


(***************************************************************************)
(* src/providers/base_openai.py and src/providers/mistral.py: one chat     *)
(* call of an adapter, from the ChatRequest to the payload posted and from *)
(* the upstream's answer to what the call returns or raises                *)
(***************************************************************************)
\* MistralRateLimitError.__init__: the same fields as BaseRateLimitError
MistralRateLimitError(status_code, headers) ==
    [BaseRateLimitError(status_code, headers) EXCEPT !.cls = "MistralRateLimitError"]

MistralChat(up) ==
    IF ~up.answered THEN Failed(TransportExc)
    ELSE IF up.status_code = 429
         THEN Failed(MistralRateLimitError(429, up.headers))
    ELSE IF up.status_code \notin 200..299
         THEN Failed(HTTPStatusError(up.status_code, up.headers))
    ELSE Replied(3, 2)

AdapterKinds == {"openai", "mistral"}
ChatOf(kind, up) == IF kind = "mistral" THEN MistralChat(up) ELSE OpenAIChat(up)

Payload_ClientFormatWins(rq) ==
    LET keys == {"model", "messages", "stream"}
                  \cup (IF rq.json \/ rq.response_format # "none"
                        THEN {"response_format"} ELSE {})
                  \cup (IF ~IsNone(rq.max_tokens) THEN {"max_tokens"} ELSE {})
                  \cup (IF ~IsNone(rq.tools) THEN {"tools"} ELSE {})
    IN  [k \in keys |->
            CASE k = "model" -> rq.model
              [] k = "messages" -> rq.messages
              [] k = "stream" -> rq.stream
              [] k = "response_format" ->
                    IF rq.response_format # "none" THEN rq.response_format
                    ELSE "json_object"
              [] k = "max_tokens" -> Val(rq.max_tokens)
              [] k = "tools" -> Val(rq.tools)]

\* the payload dict of chat: a key is present only when the code sets it;
\* response_format is {"type": "json_object"} under request.json and the
\* client's own value otherwise
Payload(rq) ==
    LET keys == {"model", "messages", "stream"}
                  \cup (IF rq.json \/ rq.response_format # "none"
                        THEN {"response_format"} ELSE {})
                  \cup (IF ~IsNone(rq.max_tokens) THEN {"max_tokens"} ELSE {})
                  \cup (IF ~IsNone(rq.tools) THEN {"tools"} ELSE {})
    IN  [k \in keys |->
            CASE k = "model" -> rq.model
              [] k = "messages" -> rq.messages
              [] k = "stream" -> rq.stream
              [] k = "response_format" ->
                    IF rq.json THEN "json_object" ELSE rq.response_format
              [] k = "max_tokens" -> Val(rq.max_tokens)
              [] k = "tools" -> Val(rq.tools)]

\* the requests an adapter may be handed: the router has already set the model
\* and cleared stream, a direct caller may stream
RequestsAdapter ==
    { [Request(<<"a1">>, j, t, s) EXCEPT !.response_format = f, !.max_tokens = mt] :
        j \in BOOLEAN, t \in {None, Some(<<>>)}, s \in BOOLEAN,
        f \in {"none", "json_object", "text"}, mt \in {None, Some(1)} }

\* the upstream's answers: a Retry-After header is delay-seconds or an HTTP-date
UpstreamsAdapter ==
    { UpstreamReply(s, NoHeaders) : s \in {200, 400, 429, 503} }
      \cup { UpstreamReply(429, LowerRetryAfter(v)) :
                v \in {<<"5">>, <<"1", "2">>, <<"W", "e", "d">>} }
      \cup { UpstreamReply(503, LowerRetryAfter(<<"5">>)), UpstreamDown }

\* one chat call made on an adapter directly
AdapterChat(kind, rq, up) ==
    /\ call' = Some([fn |-> "chat", kind |-> kind, request |-> rq, payload |-> Payload(rq),
                     upstream |-> up, result |-> ChatOf(kind, up)])
    /\ UNCHANGED << registry, budget, usage_logs, now, request, entry, pc, queue, qi, req,
                    attempt, wake, last_error, result, trace, started, peak, headroom,
                    candidates, posted, http_status, stats >>

NextAdapter ==
    \E kind \in AdapterKinds : \E rq \in RequestsAdapter : \E up \in UpstreamsAdapter :
        AdapterChat(kind, rq, up)

SpecAdapter == InitHelpers /\ [][NextAdapter]_vars

\* the Retry-After header of an upstream answer, None when there is none
RetryAfterOf(up) == HeaderGet(up.headers, "retry-after")

\* C31 as stated: an upstream 429 makes the adapter raise its rate-limit error
\* with status_code 429 and the response headers, retry_after equal to the
\* Retry-After header value; the router classifies it retry_same and its
\* backoff delay is that value.
C31_RetryAfterIsTheDelay ==
    ( CallOf("chat") /\ Val(call).upstream.answered /\ Val(call).upstream.status_code = 429 )
    => LET up == Val(call).upstream
           res == Val(call).result
       IN  /\ ~res.ok
           /\ res.exc.cls \in {"BaseRateLimitError", "MistralRateLimitError"}
           /\ res.exc.status_code = Some(429)
           /\ res.exc.headers = up.headers
           /\ res.exc.retry_after = RetryAfterOf(up)
           /\ is_retryable(res.exc).action = "retry_same"
           /\ is_retryable(res.exc).retry_after = RetryAfterOf(up)
           /\ ~IsNone(RetryAfterOf(up)) =>
                 /\ IsInteger(Val(RetryAfterOf(up)))
                 /\ calculate_backoff(1, is_retryable(res.exc).retry_after)
                       = IntegerOf(Val(RetryAfterOf(up)))

\* C31 (amended): an upstream 429 makes the adapter raise its rate-limit error
\* with status_code 429 and the response headers, retry_after equal to the
\* Retry-After header value; the router classifies it retry_same, and when
\* that value is an integer number of seconds it is the backoff delay.
C31_IntegerRetryAfterIsTheDelay ==
    ( CallOf("chat") /\ Val(call).upstream.answered /\ Val(call).upstream.status_code = 429 )
    => LET up == Val(call).upstream
           res == Val(call).result
       IN  /\ ~res.ok
           /\ res.exc.cls \in {"BaseRateLimitError", "MistralRateLimitError"}
           /\ res.exc.status_code = Some(429)
           /\ res.exc.headers = up.headers
           /\ res.exc.retry_after = RetryAfterOf(up)
           /\ is_retryable(res.exc).action = "retry_same"
           /\ is_retryable(res.exc).retry_after = RetryAfterOf(up)
           /\ ( ~IsNone(RetryAfterOf(up)) /\ IsInteger(Val(RetryAfterOf(up))) ) =>
                 calculate_backoff(1, is_retryable(res.exc).retry_after)
                    = IntegerOf(Val(RetryAfterOf(up)))

C31_Witness ==
    /\ CallOf("chat")
    /\ Val(call).kind = "mistral"
    /\ Val(call).upstream = UpstreamReply(429, LowerRetryAfter(<<"1", "2">>))
    /\ Val(call).result.exc.retry_after = Some(<<"1", "2">>)
    /\ calculate_backoff(1, is_retryable(Val(call).result.exc).retry_after) = 12

\* C32: the payload's response_format is {"type": "json_object"} whenever
\* request.json is true, whatever the client supplied; under json false it is
\* the client's response_format, and the key is absent when that is null.
C32_ResponseFormatOnTheWire ==
    CallOf("chat") =>
        LET rq == Val(call).request
            payload == Val(call).payload
        IN  /\ rq.json =>
                 /\ "response_format" \in DOMAIN payload
                 /\ payload["response_format"] = "json_object"
            /\ ( ~rq.json /\ rq.response_format # "none" ) =>
                 /\ "response_format" \in DOMAIN payload
                 /\ payload["response_format"] = rq.response_format
            /\ ( ~rq.json /\ rq.response_format = "none" ) =>
                 "response_format" \notin DOMAIN payload

C32_Witness ==
    /\ CallOf("chat")
    /\ Val(call).request.json
    /\ Val(call).request.response_format = "text"
    /\ Val(call).payload["response_format"] = "json_object"


(***************************************************************************)
(* src/router/registry.py: ProviderRegistry, the _providers dict as the     *)
(* sequence of its values in key insertion order                           *)
(***************************************************************************)
MaxRegisters == 4

\* an adapter object whose name property raises
Nameless == [name_raises |-> TRUE]
NameRaises(provider) == "name_raises" \in DOMAIN provider

\* the position of a key in the dict, 0 when absent
KeyPos(providers, name) ==
    IF \E i \in 1..Len(providers) : providers[i].name = name
    THEN CHOOSE i \in 1..Len(providers) : providers[i].name = name
    ELSE 0

register_provider_MoveToEnd(providers, provider) ==
    IF NameRaises(provider) THEN providers
    ELSE Append(SelectSeq(providers, LAMBDA p : p.name # provider.name), provider)

\* self._providers[name] = provider: an existing key keeps its position
register_provider(providers, provider) ==
    IF NameRaises(provider) THEN providers
    ELSE IF KeyPos(providers, provider.name) # 0
         THEN [providers EXCEPT ![KeyPos(providers, provider.name)] = provider]
         ELSE Append(providers, provider)

get_providers(providers) == providers

get_provider(providers, name) ==
    IF KeyPos(providers, name) # 0 THEN Some(providers[KeyPos(providers, name)]) ELSE None

\* adapter objects to register: two distinct objects under each of three
\* names, and one whose name cannot be read
Registrable ==
    { Adapter(n, ms) : n \in {PA, PB, PC},
                       ms \in { << >>, << Md(<<"m1">>, TRUE, TRUE, TRUE) >> } }
      \cup { Nameless }

RegisterProvider(provider) ==
    /\ IF IsNone(call) THEN TRUE ELSE Len(Val(call).args) < MaxRegisters
    /\ registry' = register_provider(registry, provider)
    /\ call' = Some([fn |-> "register_provider",
                     args |-> Append(IF IsNone(call) THEN <<>> ELSE Val(call).args, provider)])
    /\ UNCHANGED << budget, usage_logs, now, request, entry, pc, queue, qi, req,
                    attempt, wake, last_error, result, trace, started, peak, headroom,
                    candidates, posted, http_status, stats >>

\* a registry constructed with no API key in the environment
InitRegistry ==
    /\ registry = <<>>
    /\ budget = None
    /\ usage_logs = <<>>
    /\ now = StartClock
    /\ request = [r \in Routes |-> Request(StrAuto, FALSE, None, FALSE)]
    /\ entry = request
    /\ req = request
    /\ pc = [r \in Routes |-> "idle"]
    /\ queue = [r \in Routes |-> <<>>]
    /\ qi = [r \in Routes |-> 0]
    /\ attempt = [r \in Routes |-> 0]
    /\ wake = [r \in Routes |-> 0]
    /\ last_error = [r \in Routes |-> None]
    /\ result = [r \in Routes |-> None]
    /\ trace = [r \in Routes |-> <<>>]
    /\ started = 0
    /\ peak = 0
    /\ headroom = None
    /\ NothingElse

NextRegistry == \E provider \in Registrable : RegisterProvider(provider)

SpecRegistry == InitRegistry /\ [][NextRegistry]_vars

\* the register_provider calls made so far whose adapter has a readable name
Registered ==
    IF IsNone(call) THEN <<>> ELSE SelectSeq(Val(call).args, LAMBDA p : ~NameRaises(p))

\* C33: after any sequence of register_provider calls the registry holds
\* exactly one adapter per distinct name, get_provider(name) is the adapter
\* most recently registered under that name, and get_providers lists the
\* adapters in the order their names were first registered.
C33_OnePerNameLatestWinsFirstOrder ==
    LET regs == Registered
        listed == get_providers(registry)
        FirstAt(name) == CHOOSE i \in 1..Len(regs) :
                            /\ regs[i].name = name
                            /\ \A j \in 1..(i - 1) : regs[j].name # name
        LastAt(name) == CHOOSE i \in 1..Len(regs) :
                            /\ regs[i].name = name
                            /\ \A j \in (i + 1)..Len(regs) : regs[j].name # name
    IN  /\ { listed[i].name : i \in 1..Len(listed) } = { regs[i].name : i \in 1..Len(regs) }
        /\ \A i, j \in 1..Len(listed) : listed[i].name = listed[j].name => i = j
        /\ \A name \in {PA, PB, PC} :
              IF \E i \in 1..Len(regs) : regs[i].name = name
              THEN get_provider(registry, name) = Some(regs[LastAt(name)])
              ELSE get_provider(registry, name) = None
        /\ \A i, j \in 1..Len(listed) :
              i < j => FirstAt(listed[i].name) < FirstAt(listed[j].name)

\* B registered, then A, then a different adapter under the name B again
C33_Witness ==
    /\ Len(Registered) = 3
    /\ Registered[1].name = PB
    /\ Registered[2].name = PA
    /\ Registered[3].name = PB
    /\ Registered[3] # Registered[1]
    /\ Len(registry) = 2
    /\ registry[1] = Registered[3]


\* the adapter registered under a name reports a model of this name
Reports(provider_name, model_name) ==
    \E a \in 1..Len(registry) :
        /\ registry[a].name = provider_name
        /\ ~registry[a].models_raises
        /\ \E k \in 1..Len(registry[a].models) :
              /\ "name" \in DOMAIN registry[a].models[k]
              /\ registry[a].models[k].name = model_name

\* C34: every ChatRequest the router passes to adapter.chat has stream false
\* and the model name its adapter reported for the candidate, whatever model
\* and stream the client sent; every other field is the client's.
C34_ChatRequestAsPrepared ==
    \A r \in Routes : \A i \in Chats(r) :
        LET ev == trace[r][i]
        IN  /\ ev.req.stream = FALSE
            /\ ev.req.model = ev.model
            /\ Reports(ev.provider, ev.req.model)
            /\ \A f \in DOMAIN entry[r] \ {"model", "stream"} : ev.req[f] = entry[r][f]
            /\ DOMAIN ev.req = DOMAIN entry[r]

\* a streaming client leaving the choice open: the chat calls on two providers
\* carry stream false and each provider's reported name
C34_Witness ==
    /\ entry[1].stream
    /\ entry[1].model = StrAuto
    /\ \E i, j \in Chats(1) :
          /\ trace[1][i].provider # trace[1][j].provider
          /\ trace[1][i].req.model # trace[1][j].req.model
          /\ ~trace[1][i].req.stream /\ ~trace[1][j].req.stream


\* models() is called on the adapter at position a: no provider hint, or the
\* hint names it
ModelsAsked(r, a) ==
    LET hint == _parse_model_hint(entry[r].model)
    IN  ~Truthy(hint.provider) \/ Val(hint.provider) = registry[a].name

\* that call raised or returned an empty list
ModelsFailed(r, a) ==
    /\ ModelsAsked(r, a)
    /\ registry[a].models_raises \/ registry[a].models = <<>>

RegistryPos(provider_name) == CHOOSE a \in 1..Len(registry) : registry[a].name = provider_name

\* C35: when an adapter's models() raises or returns an empty list during
\* enumeration only that provider is skipped: models() is still called on
\* every other provider, in registry order, their surviving models are the
\* candidates and the request is routed to them; what the caller gets is a
\* response, a chat call's error or NoCapableProvider.
C35_FailedModelsSkipsThatProviderOnly ==
    \A r \in Routes :
        ( pc[r] \notin {"idle", "start"} /\ \E a \in 1..Len(registry) : ModelsFailed(r, a) )
        => /\ \A a \in 1..Len(registry) :
                 ModelsAsked(r, a) =>
                    \E i \in Events(r, "models") :
                       /\ trace[r][i].provider = registry[a].name
                       /\ trace[r][i].raised = registry[a].models_raises
           /\ \A i, j \in Events(r, "models") :
                 i < j => RegistryPos(trace[r][i].provider) < RegistryPos(trace[r][j].provider)
           /\ { candidates[r][k] : k \in 1..Len(candidates[r]) }
                 = { [provider |-> registry[am[1]].name,
                      model |-> registry[am[1]].models[am[2]].name] : am \in Survivors(r) }
           /\ \A i \in Chats(r) : ~ModelsFailed(r, RegistryPos(trace[r][i].provider))
           /\ Survivors(r) # {} =>
                 /\ Done(r) => Chats(r) # {}
                 /\ \A i \in Chats(r) :
                       \E am \in Survivors(r) : registry[am[1]].name = trace[r][i].provider
           /\ Survivors(r) = {} => IsNoCapable(r)
           /\ pc[r] = "raised" =>
                 \/ IsNoCapable(r)
                 \/ /\ Chats(r) # {}
                    /\ result[r] = Raised(trace[r][LastChat(r)].outcome.exc)

\* A's models() raised, B's returned nothing: C and D were asked and called
C35_Witness ==
    /\ registry = RegistryFaulty
    /\ \E i \in Events(1, "models") : trace[1][i].provider = PA /\ trace[1][i].raised
    /\ \E i \in Events(1, "models") : trace[1][i].provider = PB /\ ~trace[1][i].raised
    /\ \E i \in Events(1, "models") : trace[1][i].provider = PD
    /\ ChatsOn(1, PC) # {}
    /\ ChatsOn(1, PD) # {}
    /\ pc[1] = "returned"


C37_FailedRowsCountAsRequests ==
    [][ ( InsertsRow /\ ~IsNone(budget) ) =>
            LET row == usage_logs'[Len(usage_logs')]
                inMinute == row.ts >= now - MinuteSeconds
                inDay == row.ts >= now - DaySeconds
                before == get_usage_stats(usage_logs, now, row.provider, row.model)
                after == get_usage_stats(usage_logs', now, row.provider, row.model)
                hb == check_headroom(Val(budget), usage_logs, now, row.provider, row.model,
                                     None, None).remaining
                ha == check_headroom(Val(budget), usage_logs', now, row.provider, row.model,
                                     None, None).remaining
                Lowered(k, counted) ==
                    IF IsNone(hb[k]) THEN IsNone(ha[k])
                    ELSE ha[k] = Some(Max2(0, Val(hb[k]) - (IF counted THEN 1 ELSE 0)))
            IN  /\ after.minute.requests = before.minute.requests + (IF inMinute THEN 1 ELSE 0)
                /\ after.day.requests = before.day.requests + (IF inDay THEN 1 ELSE 0)
                /\ ~row.success =>
                      /\ after.minute.tokens = before.minute.tokens
                      /\ after.day.tokens = before.day.tokens
                      /\ Lowered("rpm", inMinute)
                      /\ Lowered("rpd", inDay)
                      /\ ha["tpm"] = hb["tpm"]
                      /\ ha["tpd"] = hb["tpd"] ]_vars

\* after a success with tokens, a failed row took the last request of the
\* minute and left the token headroom alone
C37_Witness ==
    /\ ~IsNone(budget)
    /\ Len(usage_logs) = 2
    /\ usage_logs[1].success /\ usage_logs[1].total_tokens > 0
    /\ ~usage_logs[2].success
    /\ LET hb == check_headroom(Val(budget), SubSeq(usage_logs, 1, 1), now, PA, <<"a1">>,
                                None, None).remaining
           ha == check_headroom(Val(budget), usage_logs, now, PA, <<"a1">>, None, None).remaining
       IN  /\ hb["rpm"] = Some(1) /\ ha["rpm"] = Some(0)
           /\ ~IsNone(hb["tpm"]) /\ ha["tpm"] = hb["tpm"]


\* the event loop keeps running the route call: every adapter call returns or
\* raises and every sleep ends
SpecLive == Init /\ [][Next]_vars /\ WF_vars(Next)

OutcomeOfLastChat(r) ==
    /\ pc[r] = "returned"
    /\ Chats(r) # {}
    /\ trace[r][LastChat(r)].outcome.ok
    /\ ~Val(result[r]).raised
    /\ Val(result[r]).value.content = trace[r][LastChat(r)].outcome.content
    /\ Val(result[r]).value.usage = trace[r][LastChat(r)].outcome.usage

NoRetryOfLastChat(r) ==
    /\ pc[r] = "raised"
    /\ Chats(r) # {}
    /\ ~trace[r][LastChat(r)].outcome.ok
    /\ is_retryable(trace[r][LastChat(r)].outcome.exc).action = "no_retry"
    /\ result[r] = Raised(trace[r][LastChat(r)].outcome.exc)

WithinCallBounds(r) ==
    /\ Cardinality(Chats(r)) <= 6
    /\ Cardinality(Events(r, "sleep")) <= 3
    /\ Cardinality({ trace[r][i].provider : i \in Chats(r) }) <= 3
    /\ \A i \in Chats(r) : Cardinality(ChatsOn(r, trace[r][i].provider)) <= 2
    /\ \A i \in Chats(r) : trace[r][i].outcome.ok => LaterChats(r, i) = {}
    /\ Done(r) =>
          \/ OutcomeOfLastChat(r) /\ ~NoRetryOfLastChat(r) /\ ~IsNoCapable(r)
          \/ ~OutcomeOfLastChat(r) /\ NoRetryOfLastChat(r) /\ ~IsNoCapable(r)
          \/ ~OutcomeOfLastChat(r) /\ ~NoRetryOfLastChat(r) /\ IsNoCapable(r)

\* C38: when every adapter call returns, a route call terminates, after at
\* most 6 chat calls (at most 3 providers, at most 2 calls each) and at most
\* 3 sleeps, with exactly one outcome: the response of its last chat call (no
\* chat call follows a success), the re-raised no_retry error of its last chat
\* call, or NoCapableProvider.
C38_TerminatesWithinBounds == [](WithinCallBounds(1)) /\ <>Done(1)

\* three providers each rate limited twice: six calls, three sleeps
C38_Witness ==
    /\ IsNoCapable(1)
    /\ Cardinality(Chats(1)) = 6
    /\ Cardinality(Events(1, "sleep")) = 3


\* the positions, in models() order, of the models of the adapter at position
\* a that passed hint, capability and headroom filtering
SurvivingModels(r, a) == { k \in 1..4 : << a, k >> \in Survivors(r) }

\* C39: within one route call every chat call on a provider names the first
\* of that provider's surviving models, in models() order; its other
\* surviving models are never tried, whatever the attempts on the first gave.
C39_OneModelPerProvider ==
    \A r \in Routes : \A i \in Chats(r) :
        LET a == RegistryPos(trace[r][i].provider)
        IN  /\ SurvivingModels(r, a) # {}
            /\ trace[r][i].model = registry[a].models[Least(SurvivingModels(r, a))].name
            /\ \A j \in ChatsOn(r, trace[r][i].provider) : trace[r][j].model = trace[r][i].model

\* a1 and a2 both survived; both attempts on a1 failed and the router moved on
\* to the next provider without trying a2
C39_Witness ==
    /\ registry = RegistryFour
    /\ Cardinality(SurvivingModels(1, 1)) = 2
    /\ Cardinality(ChatsOn(1, PA)) = 2
    /\ \A i \in ChatsOn(1, PA) : trace[1][i].model = <<"a1">> /\ ~trace[1][i].outcome.ok
    /\ ChatsOn(1, PB) # {}
    /\ Done(1)


(***************************************************************************)
(* Rows recorded for several (provider, model) pairs under a limits table  *)
(* whose default entry serves two models of one provider                   *)
(***************************************************************************)
LimitsShared ==
    [p \in {PA, PB} |->
        IF p = PA
        THEN [m \in {DefaultKey, <<"a3">>} |->
                 IF m = DefaultKey THEN [rpm |-> Some(1), tpd |-> Some(4)]
                 ELSE [rpd |-> Some(2)]]
        ELSE [m \in {DefaultKey} |-> [rpm |-> Some(2), tpm |-> Some(3)]]]

\* a1 and a2 fall back to A's default entry, a3 has its own, and B has a
\* model named like one of A's
FramePairs == { << PA, <<"a1">> >>, << PA, <<"a2">> >>, << PA, <<"a3">> >>, << PB, <<"a1">> >> }

InitFrame ==
    /\ registry = RegistryOne
    /\ budget = Some(LimitsShared)
    /\ usage_logs = <<>>
    /\ now = StartClock
    /\ \E rq \in RequestsConc :
          /\ request = [r \in Routes |-> rq]
          /\ entry = [r \in Routes |-> rq]
          /\ req = [r \in Routes |-> rq]
    /\ pc = [r \in Routes |-> "idle"]
    /\ queue = [r \in Routes |-> <<>>]
    /\ qi = [r \in Routes |-> 0]
    /\ attempt = [r \in Routes |-> 0]
    /\ wake = [r \in Routes |-> 0]
    /\ last_error = [r \in Routes |-> None]
    /\ result = [r \in Routes |-> None]
    /\ trace = [r \in Routes |-> <<>>]
    /\ started = 0
    /\ peak = 0
    /\ headroom = None
    /\ NothingElse

NextFrame ==
    \/ \E pm \in FramePairs, row \in HeadroomRows :
          RecordUsage(pm[1], pm[2], row.tokens, row.success, None)
    \/ \E pm \in FramePairs : CheckHeadroom(pm[1], pm[2], Some(1), Some(0))

SpecFrame == InitFrame /\ [][NextFrame]_vars

\* C40: recording a row for (provider, model) leaves what get_usage_stats
\* and check_headroom return for every other (provider, model) pair as it
\* was, also for another model of the same provider that takes its caps from
\* the same default limits entry.
C40_OtherPairsUntouched ==
    [][ ( InsertsRow /\ ~IsNone(budget) ) =>
            LET row == usage_logs'[Len(usage_logs')]
            IN  \A pm \in FramePairs :
                    pm # << row.provider, row.model >> =>
                        /\ get_usage_stats(usage_logs', now, pm[1], pm[2])
                              = get_usage_stats(usage_logs, now, pm[1], pm[2])
                        /\ \A ep \in HeadroomEstimates :
                              check_headroom(Val(budget), usage_logs', now, pm[1], pm[2], ep, None)
                                 = check_headroom(Val(budget), usage_logs, now, pm[1], pm[2],
                                                  ep, None) ]_vars

\* the row for A/a1 used up the default cap of one request a minute for a1,
\* and a2, under the same default entry, still has its whole cap
C40_Witness ==
    /\ budget = Some(LimitsShared)
    /\ Len(usage_logs) = 1
    /\ usage_logs[1].provider = PA /\ usage_logs[1].model = <<"a1">>
    /\ _get_limits(LimitsShared, PA, <<"a1">>) = _get_limits(LimitsShared, PA, <<"a2">>)
    /\ ~IsNone(headroom)
    /\ Val(headroom).provider = PA /\ Val(headroom).model = <<"a2">>
    /\ Val(headroom).col = usage_logs
    /\ Val(headroom).result.can_proceed
    /\ Val(headroom).result.remaining["rpm"] = Some(1)
    /\ ~check_headroom(LimitsShared, usage_logs, now, PA, <<"a1">>, None, None).can_proceed

====
